---------------------------- MODULE Spec2Model ----------------------------
(***************************************************************************)
(* A model of dupenukem: the validator and executor of an edited snapshot  *)
(* over a small filesystem (Spec, SpecDotDot and SpecValidate), the        *)
(* duplicate scanner (SpecScan) and the snapshot text format (SpecText).   *)
(***************************************************************************)
EXTENDS Integers, Sequences, FiniteSets, TLC

VARIABLES
    fs,        \* the filesystem: file slot -> node (absent, regular file, symlink)
    backup,    \* the backup tree: set of [rel, content] copies taken by take_backup
    cwd,       \* the working directory of the process
    pc,        \* position of the current invocation of main
    cmd,       \* the command line of the current invocation
    snap,      \* the Snapshot that textformat::parse returned
    result,    \* what Snapshot::validate returned
    todo,      \* the pending actions execute has not performed yet
    outcome,   \* how Cli::execute ended ("" while it runs)
    exit,      \* the exit status of the finished process (-1 while running)
    run,       \* number of the invocation (1 = first, 2 = the re-run)
    hist,      \* the invocations that came before: <<[cmd, outcome, exit], ...>>
    dom,       \* which set of snapshots the input file is drawn from
    quick,     \* scanner: the quick flag
    excludes,  \* scanner: the Option<&HashSet<PathBuf>> of excluded paths
    paths,     \* scanner: what traverse_bfs returned
    dups,      \* scanner: what scan returned, fingerprint -> paths
    skip_deduped, \* find: the --skip-deduped flag
    found,     \* find: what Snapshot::of_rootdir returned (None before it ran)
    tsnap,     \* text format: the Snapshot handed to render (None if lines are input)
    lines,     \* text format: the Vec<String> rendered or read
    parsed,    \* text format: what parse returned
    args,      \* a function called on its own: its arguments (None in other runs)
    ret,       \* a function called on its own: what it returned (None before)
    dirqueue,  \* traverse_bfs: the VecDeque of directories still to be read
    reads      \* traverse_bfs: the directories handed to fs::read_dir so far

scanvars == <<quick, excludes, paths, dups, skip_deduped, found>>
textvars == <<tsnap, lines, parsed>>
callvars == <<args, ret, dirqueue, reads>>

vars ==
    <<fs, backup, cwd, pc, cmd, snap, result, todo, outcome, exit, run, hist, dom,
      scanvars, textvars, callvars>>

(***************************************************************************)
(* Paths.  A path is [abs, comps]: whether it starts at "/", and its       *)
(* components in order; ".." is an ordinary component of the sequence, as  *)
(* in std::path (nothing is resolved lexically).                           *)
(***************************************************************************)
AbsPath(cs) == [abs |-> TRUE, comps |-> cs]
RelPath(cs) == [abs |-> FALSE, comps |-> cs]

NoneVal == [some |-> FALSE]
Some(v) == [some |-> TRUE, val |-> v]

Ok(v) == [ok |-> TRUE, val |-> v]
Err(k, p) == [ok |-> FALSE, err |-> [kind |-> k, path |-> p]]

IsPrefix(s, t) == Len(s) <= Len(t) /\ SubSeq(t, 1, Len(s)) = s

\* Path::parent: the path without its last component (None for "/" and "").
path_parent(p) ==
    IF p.comps = <<>> THEN NoneVal
    ELSE Some([abs |-> p.abs, comps |-> SubSeq(p.comps, 1, Len(p.comps) - 1)])

\* Path::join: an absolute argument replaces the base.
path_join(base, p) ==
    IF p.abs THEN p ELSE [abs |-> base.abs, comps |-> base.comps \o p.comps]

\* Path::strip_prefix: component-wise, both of the same kind.
strip_prefix(p, base) ==
    IF p.abs = base.abs /\ IsPrefix(base.comps, p.comps)
    THEN Ok(RelPath(SubSeq(p.comps, Len(base.comps) + 1, Len(p.comps))))
    ELSE Err("StripPrefix", p)

\* fileutil::within_rootdir: rootdir is one of path.ancestors(), which are the
\* path and its successive parents, compared component by component.
within_rootdir(rootdir, path) ==
    \E n \in 0..Len(path.comps) :
        [abs |-> path.abs, comps |-> SubSeq(path.comps, 1, n)] = rootdir

\* normalize_path that returns an absolute path as it is when the result may
\* be absolute, wherever the path lies.
normalize_path_unchecked(path, must_be_relative, base_dir) ==
    IF must_be_relative /\ path.abs THEN
        IF strip_prefix(path, base_dir).ok THEN strip_prefix(path, base_dir)
        ELSE Err("Fs", path)
    ELSE IF ~must_be_relative /\ ~path.abs THEN Ok(path_join(base_dir, path))
    ELSE Ok(path)

\* fileutil::normalize_path
normalize_path(path, must_be_relative, base_dir) ==
    LET is_relative == ~path.abs IN
    IF must_be_relative /\ ~is_relative THEN
        LET r == strip_prefix(path, base_dir) IN
        IF r.ok THEN r ELSE Err("Fs", path)
    ELSE IF ~must_be_relative /\ is_relative THEN
        Ok(path_join(base_dir, path))
    ELSE IF ~is_relative THEN
        IF strip_prefix(path, base_dir).ok THEN Ok(path) ELSE Err("Fs", path)
    ELSE Ok(path)

Repeat(x, n) == [i \in 1..n |-> x]

\* pathdiff::diff_paths(path, base), as fileutil::normalize_symlink_src_path
\* calls it: the components after the common prefix, preceded by one ".." for
\* each remaining component of base; None when base has a ".." there.
RECURSIVE diff_loop(_, _, _)
diff_loop(a, b, comps) ==
    IF a = <<>> /\ b = <<>> THEN Some(comps)
    ELSE IF b = <<>> THEN Some(comps \o a)
    ELSE IF a = <<>> THEN diff_loop(a, Tail(b), Append(comps, ".."))
    ELSE IF comps = <<>> /\ Head(a) = Head(b) THEN diff_loop(Tail(a), Tail(b), comps)
    ELSE IF Head(b) = ".." THEN NoneVal
    ELSE Some(comps \o Repeat("..", Len(b)) \o a)

diff_paths(path, base) ==
    IF path.abs # base.abs
    THEN (IF path.abs THEN Some(path) ELSE NoneVal)
    ELSE LET d == diff_loop(path.comps, base.comps, <<>>) IN
         IF d.some THEN Some(RelPath(d.val)) ELSE NoneVal

\* fileutil::normalize_symlink_src_path
normalize_symlink_src_path(target, source, is_explicit) ==
    IF is_explicit THEN Ok(source)
    ELSE LET tp == path_parent(target) IN
         IF ~tp.some THEN Err("Fs", target)
         ELSE LET d == diff_paths(source, tp.val) IN
              IF d.some THEN Ok(d.val) ELSE Err("Fs", source)


(***************************************************************************)
(* The filesystem.  The directories are fixed; each file slot holds no     *)
(* entry, a regular file with some content, or a symbolic link with the    *)
(* stored link path.  /o lies outside the root directory /r.               *)
(***************************************************************************)
Dirs == { <<>>, <<"r">>, <<"r", "a">>, <<"r", "b">> }
Slots ==
    { <<"r", "a", "1">>, <<"r", "a", "2">>, <<"r", "b", "1">>, <<"r", "b", "2">>,
      <<"o">> }

\* File contents.  c1 and c2 differ in everything but size; c3 has the size and
\* the fingerprint of c1 and other bytes; c4 has the fingerprint of c1 and
\* another size.
Contents == {"c1", "c2", "c3", "c4"}

\* Metadata::len of a file with these bytes.
metadata_len(c) == IF c = "c4" THEN 2 ELSE 1

\* hash::xxh3_64 of a file's bytes: the fingerprint of each content.
xxh3_64(c) == IF c = "c2" THEN 2 ELSE 1

\* hash::sha256 of a file's bytes: one digest per content.
sha256(c) == c

Absent == [kind |-> "none"]
File(c) == [kind |-> "file", content |-> c]
Link(t) == [kind |-> "link", target |-> t]

\* A chain of links that does not loop passes each slot at most once.
LinkFuel == Cardinality(Slots)

DirParent(d) == IF d = <<>> THEN d ELSE SubSeq(d, 1, Len(d) - 1)

\* Path resolution of the kernel: walk the components from `cur`; ".." steps to
\* the parent directory; a symlink met on the way (or at the end, when `follow`)
\* is replaced by its stored link, relative to the directory that holds it.
RECURSIVE Walk(_, _, _, _, _)
Walk(f, cur, rest, follow, fuel) ==
    IF rest = <<>> THEN [ok |-> TRUE, at |-> cur]
    ELSE IF cur \notin Dirs THEN [ok |-> FALSE, at |-> cur]
    ELSE LET c == Head(rest)
             tl == Tail(rest)
             nxt == Append(cur, c)
         IN  IF c = ".." THEN Walk(f, DirParent(cur), tl, follow, fuel)
             ELSE IF nxt \in Slots /\ f[nxt].kind = "link" /\ (tl # <<>> \/ follow)
             THEN IF fuel = 0 THEN [ok |-> FALSE, at |-> nxt]
                  ELSE LET t == f[nxt].target IN
                       Walk(f, IF t.abs THEN <<>> ELSE cur, t.comps \o tl, follow, fuel - 1)
             ELSE Walk(f, nxt, tl, follow, fuel)

\* stat (follow) or lstat (~follow) of a path: the kind of entry it names and
\* where that entry is.  A relative path starts at the working directory.
StatOf(f, w) ==
    IF ~w.ok THEN [kind |-> "none", at |-> w.at]
    ELSE IF w.at \in Dirs THEN [kind |-> "dir", at |-> w.at]
    ELSE IF w.at \in Slots THEN [kind |-> f[w.at].kind, at |-> w.at]
    ELSE [kind |-> "none", at |-> w.at]

Stat(f, wd, p, follow) ==
    StatOf(f, Walk(f, IF p.abs THEN <<>> ELSE wd, p.comps, follow, LinkFuel))

\* Path::is_symlink, Path::is_file, Path::exists, Path::try_exists
is_symlink(f, wd, p) == Stat(f, wd, p, FALSE).kind = "link"
is_file(f, wd, p) == Stat(f, wd, p, TRUE).kind = "file"
exists(f, wd, p) == Stat(f, wd, p, TRUE).kind \in {"file", "dir"}

\* Path::read_link: the stored link, as written.
ReadLinkAt(f, s, p) ==
    IF s.kind = "link" THEN Ok(f[s.at].target) ELSE Err("Io", Some(p))

read_link(f, wd, p) == ReadLinkAt(f, Stat(f, wd, p, FALSE), p)

\* Path::canonicalize: the absolute path of the entry, all links resolved.
CanonicalAt(s, p) ==
    IF s.kind \in {"file", "dir"} THEN Ok(AbsPath(s.at)) ELSE Err("Io", Some(p))

canonicalize(f, wd, p) == CanonicalAt(Stat(f, wd, p, TRUE), p)

\* fileutil::file_contents_as_bytes: the bytes behind the path (links followed).
BytesAt(f, s, p) ==
    IF s.kind = "file" THEN Ok(f[s.at].content) ELSE Err("Io", Some(p))

file_contents_as_bytes(f, wd, p) == BytesAt(f, Stat(f, wd, p, TRUE), p)

\* hash::Checksum::of_file
ChecksumOfBytes(b) == IF b.ok THEN Ok(xxh3_64(b.val)) ELSE b

Checksum_of_file(f, wd, p) == ChecksumOfBytes(file_contents_as_bytes(f, wd, p))

(***************************************************************************)
(* Snapshot model (snapshot/mod.rs).  A FilePath is [path, op, source]:    *)
(* op is "keep", "symlink" or "delete"; source is the Option<PathBuf> of   *)
(* FileOp::Symlink (NoneVal for the other two).  duplicates is given as    *)
(* the sequence in which the HashMap is iterated.                          *)
(***************************************************************************)
FilePath(p, o, s) == [path |-> p, op |-> o, source |-> s]

\* Order of the components that occur in paths (derive(Ord) of Component, and
\* byte order among the names).
NameRank(n) ==
    CASE n = "/" -> 0 [] n = ".." -> 1 [] n = "1" -> 2 [] n = "2" -> 3
      [] n = "a" -> 4 [] n = "b" -> 5 [] n = "o" -> 6 [] n = "r" -> 7 [] OTHER -> 8

\* Ord of Path: component by component, a proper prefix first.  The root
\* component of an absolute path precedes "..", which precedes every name.
RECURSIVE CompsLess(_, _)
CompsLess(a, b) ==
    IF b = <<>> THEN FALSE
    ELSE IF a = <<>> THEN TRUE
    ELSE IF Head(a) = Head(b) THEN CompsLess(Tail(a), Tail(b))
    ELSE NameRank(Head(a)) < NameRank(Head(b))

Components(p) == IF p.abs THEN <<"/">> \o p.comps ELSE p.comps

PathLess(p, q) == CompsLess(Components(p), Components(q))

\* derive(Ord) of FileOp: Keep < Symlink < Delete, then Option<PathBuf>.
OpRank(o) == CASE o = "keep" -> 0 [] o = "symlink" -> 1 [] OTHER -> 2

SourceLess(s, t) ==
    IF ~s.some THEN t.some
    ELSE t.some /\ PathLess(s.val, t.val)

\* derive(Ord) of FilePath: by path, then by op.
FilePathLess(x, y) ==
    IF x.path # y.path THEN PathLess(x.path, y.path)
    ELSE IF x.op # y.op THEN OpRank(x.op) < OpRank(y.op)
    ELSE SourceLess(x.source, y.source)

\* Vec::sort (stable): insertion of each element after the ones not greater.
RECURSIVE InsertSorted(_, _)
InsertSorted(x, s) ==
    IF s = <<>> THEN <<x>>
    ELSE IF FilePathLess(x, Head(s)) THEN <<x>> \o s
    ELSE <<Head(s)>> \o InsertSorted(x, Tail(s))

RECURSIVE SortFilePaths(_)
SortFilePaths(s) ==
    IF s = <<>> THEN <<>>
    ELSE InsertSorted(s[Len(s)], SortFilePaths(SubSeq(s, 1, Len(s) - 1)))

\* Iterator::find: the index of the first element satisfying Test, 0 if none.
FirstIndex(s, Test(_)) ==
    IF \E i \in 1..Len(s) : Test(s[i])
    THEN CHOOSE i \in 1..Len(s) : Test(s[i]) /\ \A j \in 1..(i - 1) : ~Test(s[j])
    ELSE 0

IsKeep(fp) == fp.op = "keep"

\* snapshot::find_keeper: the first 'keep' of the sorted copy, returned as the
\* first entry of the original list with that path.
snapshot_find_keeper(filepaths) ==
    LET sorted == SortFilePaths(filepaths)
        k == FirstIndex(sorted, IsKeep)
    IN  IF k = 0 THEN NoneVal
        ELSE LET SamePath(fp) == fp.path = sorted[k].path IN
             Some(filepaths[FirstIndex(filepaths, SamePath)])

\* snapshot::are_all_deletions
are_all_deletions(filepaths) ==
    \A i \in 1..Len(filepaths) : filepaths[i].op = "delete"

\* is_group_deduped that does not count the 'keep' entries.
is_group_deduped_any_keep(filepaths) ==
    /\ \A i \in 1..Len(filepaths) : filepaths[i].op # "delete"
    /\ \E i \in 1..Len(filepaths) : filepaths[i].op = "keep"

\* snapshot::is_group_deduped
is_group_deduped(filepaths) ==
    /\ \A i \in 1..Len(filepaths) : filepaths[i].op # "delete"
    /\ Cardinality({i \in 1..Len(filepaths) : filepaths[i].op = "keep"}) = 1

(***************************************************************************)
(* Validator (snapshot/validation.rs).  An Action is                       *)
(* [kind, path, source, is_explicit, is_no_op]; validate returns           *)
(* Ok(actions) or the first Error, [kind, path].  A step that may fail     *)
(* hands its result to the operator that continues after it (the `?` of    *)
(* the source).                                                            *)
(***************************************************************************)
ActKeep(p) ==
    [kind |-> "Keep", path |-> p, source |-> NoneVal,
     is_explicit |-> FALSE, is_no_op |-> FALSE]
ActSymlink(p, src, e, n) ==
    [kind |-> "Symlink", path |-> p, source |-> Some(src),
     is_explicit |-> e, is_no_op |-> n]
ActDelete(p, n) ==
    [kind |-> "Delete", path |-> p, source |-> NoneVal,
     is_explicit |-> FALSE, is_no_op |-> n]

\* r?; then v
AndThen(r, v) == IF r.ok THEN v ELSE r

\* validation::validate_rootdir
validate_rootdir(f, wd, path) ==
    IF exists(f, wd, path) THEN Ok(TRUE) ELSE Err("RootDir", Some(path))

\* validation::find_keeper: the first 'keep' entry in list order.
KeeperAt(filepaths, k) == IF k = 0 THEN NoneVal ELSE Some(filepaths[k])

validation_find_keeper(filepaths) == KeeperAt(filepaths, FirstIndex(filepaths, IsKeep))

\* validation::validate_group
validate_group(hash, filepaths) ==
    IF Len(filepaths) <= 1 THEN Err("CorruptSnapshot", NoneVal)
    ELSE IF validation_find_keeper(filepaths).some THEN Ok(TRUE)
    ELSE Err("OpNotAllowed", NoneVal)

\* validate_checksum that takes every content for current.
validate_checksum_unchecked(f, wd, path, expected_hash) == Ok(TRUE)

\* validation::validate_checksum
CompareHash(computed_hash, path, expected_hash) ==
    IF ~computed_hash.ok THEN Err("Io", Some(path))
    ELSE IF computed_hash.val = expected_hash THEN Ok(TRUE)
    ELSE Err("ChecksumMismatch", Some(path))

validate_checksum(f, wd, path, expected_hash) ==
    CompareHash(Checksum_of_file(f, wd, path), path, expected_hash)

\* validation::validate_path_to_keep
validate_path_to_keep(f, wd, filepath, expected_hash) ==
    IF is_symlink(f, wd, filepath.path) THEN Err("OpNotPossible", Some(filepath.path))
    ELSE IF is_file(f, wd, filepath.path) THEN
        AndThen(validate_checksum(f, wd, filepath.path, expected_hash),
                Ok(ActKeep(filepath.path)))
    ELSE Err("OpNotPossible", Some(filepath.path))

\* validation::verify_symlink_source_hash
HashOfCanonical(f, wd, p) == IF p.ok THEN Checksum_of_file(f, wd, p.val) ELSE p

SameHash(src_hash, source, target_hash) ==
    IF src_hash.ok THEN Ok(src_hash.val = target_hash) ELSE Err("Io", Some(source))

\* verify_symlink_source_hash that reads a relative source as it is written,
\* not from the directory of the target.
verify_symlink_source_hash_unresolved(f, wd, source, target, target_hash) ==
    SameHash(Checksum_of_file(f, wd, source), source, target_hash)

verify_symlink_source_hash(f, wd, source, target, target_hash) ==
    SameHash(IF source.abs THEN Checksum_of_file(f, wd, source)
             ELSE HashOfCanonical(f, wd,
                      canonicalize(f, wd, path_join(path_parent(target).val, source))),
             source, target_hash)

\* validation::verify_symlink_source_path
SameCanonical(p, intended_source, target) ==
    IF p.ok THEN Ok(intended_source = p.val) ELSE Err("Io", Some(target))

\* verify_symlink_source_path that never resolves a relative stored link.
verify_symlink_source_path_literal(f, wd, intended_source, actual_source, target, is_explicit) ==
    IF is_explicit \/ intended_source.abs THEN Ok(intended_source = actual_source)
    ELSE Err("OpNotAllowed", Some(target))

verify_symlink_source_path(f, wd, intended_source, actual_source, target, is_explicit) ==
    IF is_explicit \/ (intended_source.abs /\ actual_source.abs) THEN
        Ok(intended_source = actual_source)
    ELSE IF intended_source.abs /\ ~actual_source.abs THEN
        SameCanonical(canonicalize(f, wd, path_join(path_parent(target).val, actual_source)),
                 intended_source, target)
    ELSE Err("OpNotAllowed", Some(target))

\* validation::validate_path_to_symlink, from the read of the existing link on
NoOpIfSame(v, path, intended_src_path, is_explicit) ==
    IF ~v.ok THEN v
    ELSE IF v.val THEN Ok(ActSymlink(path, intended_src_path, is_explicit, TRUE))
    ELSE Err("OpNotAllowed", Some(path))

ExistingLink(f, wd, actual, path, intended_src_path, is_explicit) ==
    IF actual.ok THEN
        NoOpIfSame(verify_symlink_source_path(f, wd, intended_src_path, actual.val,
                                              path, is_explicit),
                   path, intended_src_path, is_explicit)
    ELSE Ok(ActSymlink(path, intended_src_path, is_explicit, FALSE))

\* validation::validate_path_to_symlink, after the two hash checks
SymlinkTo(f, wd, path, intended_src_path, is_explicit) ==
    IF is_symlink(f, wd, intended_src_path) THEN
        Err("OpNotAllowed", Some(intended_src_path))
    ELSE IF is_symlink(f, wd, path) THEN
        ExistingLink(f, wd, read_link(f, wd, path), path, intended_src_path, is_explicit)
    ELSE IF is_file(f, wd, path) THEN
        Ok(ActSymlink(path, intended_src_path, is_explicit, FALSE))
    ELSE Err("OpNotPossible", Some(path))

SourceHashOk(h, path, then) ==
    IF ~h.ok THEN h
    ELSE IF ~h.val THEN Err("OpNotPossible", Some(path))
    ELSE then

\* validation::validate_path_to_symlink
validate_path_to_symlink(f, wd, filepath, source, default_source, expected_hash) ==
    AndThen(validate_checksum(f, wd, filepath.path, expected_hash),
        SourceHashOk(IF source.some
                     THEN verify_symlink_source_hash(f, wd, source.val, filepath.path,
                                                     expected_hash)
                     ELSE Ok(TRUE),
                     filepath.path,
                     SymlinkTo(f, wd, filepath.path,
                               IF source.some THEN source.val ELSE default_source,
                               source.some)))

\* validate_path_to_delete that refuses a path that is already gone.
validate_path_to_delete_strict(f, wd, filepath, expected_hash) ==
    IF exists(f, wd, filepath.path) THEN
        AndThen(validate_checksum(f, wd, filepath.path, expected_hash),
                Ok(ActDelete(filepath.path, FALSE)))
    ELSE Err("OpNotPossible", Some(filepath.path))

\* validation::validate_path_to_delete
validate_path_to_delete(f, wd, filepath, expected_hash) ==
    IF exists(f, wd, filepath.path) THEN
        IF canonicalize(f, wd, filepath.path).ok THEN
            AndThen(validate_checksum(f, wd, filepath.path, expected_hash),
                    Ok(ActDelete(filepath.path, FALSE)))
        ELSE Err("OpNotAllowed", Some(filepath.path))
    ELSE Ok(ActDelete(filepath.path, TRUE))

\* validation::validate_path
validate_path(f, wd, rootdir, hash, filepath, keeper) ==
    IF ~within_rootdir(rootdir, filepath.path) THEN
        Err("CorruptSnapshot", Some(filepath.path))
    ELSE IF filepath.op = "keep" THEN validate_path_to_keep(f, wd, filepath, hash)
    ELSE IF filepath.op = "symlink" THEN
        validate_path_to_symlink(f, wd, filepath, filepath.source, keeper.path, hash)
    ELSE validate_path_to_delete(f, wd, filepath, hash)

\* actions.push(action), or the first error
Push(a, rest) ==
    IF ~a.ok THEN a
    ELSE IF rest.ok THEN Ok(<<a.val>> \o rest.val)
    ELSE rest

\* The inner loop of validation::validate: one action per entry, in list
\* order, up to the first error.
RECURSIVE validate_paths(_, _, _, _, _, _, _)
validate_paths(f, wd, rootdir, hash, filepaths, keeper, i) ==
    IF i > Len(filepaths) THEN Ok(<<>>)
    ELSE Push(validate_path(f, wd, rootdir, hash, filepaths[i], keeper),
              validate_paths(f, wd, rootdir, hash, filepaths, keeper, i + 1))

Extend(as, rest) ==
    IF ~as.ok THEN as
    ELSE IF rest.ok THEN Ok(as.val \o rest.val)
    ELSE rest

\* The outer loop of validation::validate over snap.duplicates.
RECURSIVE validate_groups(_, _, _, _)
validate_groups(f, wd, s, g) ==
    IF g > Len(s.duplicates) THEN Ok(<<>>)
    ELSE AndThen(validate_group(s.duplicates[g].hash, s.duplicates[g].filepaths),
            Extend(validate_paths(f, wd, s.rootdir, s.duplicates[g].hash,
                                  s.duplicates[g].filepaths,
                                  validation_find_keeper(s.duplicates[g].filepaths).val, 1),
                   validate_groups(f, wd, s, g + 1)))

\* validation::validate
validate(f, wd, s) ==
    AndThen(validate_rootdir(f, wd, s.rootdir), validate_groups(f, wd, s, 1))

\* Snapshot::validate: the flag is handed on, and validation::validate as it
\* stands does not read it.
Snapshot_validate(f, wd, s, is_full_deletion_allowed) == validate(f, wd, s)

(***************************************************************************)
(* Executor (executor.rs, fileutil.rs).  An operation on the filesystem    *)
(* returns [status, fs, backup]: status is "ok", "err" (an AppError) or    *)
(* "panic" (an unwrap of an Err), with the filesystem it leaves behind.    *)
(***************************************************************************)
Outcome(st, f, bk) == [status |-> st, fs |-> f, backup |-> bk]

\* fileutil::take_backup: copy the bytes behind `path` (links followed) to
\* backup_dir joined with the path relative to base_dir.
CopyTo(f, bk, rel_path, bytes) ==
    IF ~rel_path.ok THEN Outcome("err", f, bk)
    ELSE IF ~bytes.ok THEN Outcome("err", f, bk)
    ELSE Outcome("ok", f,
             {b \in bk : b.rel # rel_path.val.comps}
                 \cup {[rel |-> rel_path.val.comps, content |-> bytes.val]})

take_backup(f, bk, wd, path, base_dir) ==
    CopyTo(f, bk, strip_prefix(path, base_dir), file_contents_as_bytes(f, wd, path))

\* fs::remove_file: unlink the entry the path names (a link is not followed).
Unlink(f, bk, s) ==
    IF s.kind \in {"file", "link"}
    THEN Outcome("ok", [f EXCEPT ![s.at] = Absent], bk)
    ELSE Outcome("err", f, bk)

remove_file(f, bk, wd, path) == Unlink(f, bk, Stat(f, wd, path, FALSE))

\* fileutil::delete_file
RemoveAfter(b, wd, path) ==
    IF b.status # "ok" THEN b ELSE remove_file(b.fs, b.backup, wd, path)

\* delete_file that takes no backup.
delete_file_unsaved(f, bk, wd, path, backup_dir, base_dir) ==
    remove_file(f, bk, wd, path)

delete_file(f, bk, wd, path, backup_dir, base_dir) ==
    RemoveAfter(IF backup_dir THEN take_backup(f, bk, wd, path, base_dir)
                ELSE Outcome("ok", f, bk),
                wd, path)

\* std::os::unix::fs::symlink(source_path, path): a new link at a free name
\* of an existing directory.
LinkAt(f, bk, s, source_path) ==
    IF s.kind = "none" /\ s.at \in Slots /\ DirParent(s.at) \in Dirs
    THEN Outcome("ok", [f EXCEPT ![s.at] = Link(source_path)], bk)
    ELSE Outcome("err", f, bk)

symlink(f, bk, wd, source_path, path) ==
    LinkAt(f, bk, Stat(f, wd, path, FALSE), source_path)

\* fileutil::replace_with_symlink
LinkAfter(d, wd, source_path, path) ==
    IF d.status # "ok" THEN d ELSE symlink(d.fs, d.backup, wd, source_path, path)

replace_with_symlink(f, bk, wd, path, source_path, backup_dir, base_dir) ==
    LinkAfter(delete_file(f, bk, wd, path, backup_dir, base_dir), wd, source_path, path)

\* Action::execute, the Symlink arm after its two unwraps
ExecuteSymlink(f, bk, wd, action, src_path, rel_path, backup_dir, rootdir) ==
    IF ~src_path.ok \/ ~rel_path.ok THEN Outcome("panic", f, bk)
    ELSE IF ~action.is_no_op
    THEN replace_with_symlink(f, bk, wd, action.path, src_path.val, backup_dir, rootdir)
    ELSE Outcome("ok", f, bk)

\* Action::execute, the Delete arm after its unwrap
ExecuteDelete(f, bk, wd, action, rel_path, backup_dir, rootdir) ==
    IF ~rel_path.ok THEN Outcome("panic", f, bk)
    ELSE IF ~action.is_no_op
    THEN delete_file(f, bk, wd, action.path, backup_dir, rootdir)
    ELSE Outcome("ok", f, bk)

\* Action::execute
Action_execute(f, bk, wd, action, backup_dir, rootdir) ==
    IF action.kind = "Keep" THEN Outcome("ok", f, bk)
    ELSE IF action.kind = "Symlink" THEN
        ExecuteSymlink(f, bk, wd, action,
                       normalize_symlink_src_path(action.path, action.source.val,
                                                  action.is_explicit),
                       normalize_path(action.path, TRUE, rootdir),
                       backup_dir, rootdir)
    ELSE ExecuteDelete(f, bk, wd, action, normalize_path(action.path, TRUE, rootdir),
                       backup_dir, rootdir)

\* Action::dry_run that performs the action it describes.
Action_dry_run_performing(f, bk, action, rootdir) ==
    Action_execute(f, bk, <<>>, action, TRUE, rootdir)

\* Action::dry_run: prints the plan; the same unwraps, no file operation.
Action_dry_run(f, bk, action, rootdir) ==
    IF action.kind = "Keep" THEN Outcome("ok", f, bk)
    ELSE IF action.kind = "Symlink" THEN
        IF ~normalize_symlink_src_path(action.path, action.source.val,
                                       action.is_explicit).ok
           \/ ~normalize_path(action.path, TRUE, rootdir).ok
        THEN Outcome("panic", f, bk) ELSE Outcome("ok", f, bk)
    ELSE IF ~normalize_path(action.path, TRUE, rootdir).ok
        THEN Outcome("panic", f, bk) ELSE Outcome("ok", f, bk)

IsPending(action, include_no_op) ==
    action.kind # "Keep" /\ (include_no_op \/ ~action.is_no_op)

\* pending_actions that keeps the actions that are no-ops whatever the flag.
pending_actions_all(actions, include_no_op) ==
    LET Wanted(a) == a.kind # "Keep" IN SelectSeq(actions, Wanted)

\* executor::pending_actions
pending_actions(actions, include_no_op) ==
    LET Wanted(a) == IsPending(a, include_no_op) IN SelectSeq(actions, Wanted)

(***************************************************************************)
(* Inputs.  The snapshot file names the root /r and one group of entries   *)
(* with the fingerprint of content c1.                                     *)
(***************************************************************************)
MaxEntries == 3      \* entries in a group of the input snapshot
MaxRuns == 2         \* invocations of the program in a row

RootDir == AbsPath(<<"r">>)
GroupHash == xxh3_64("c1")

P1 == AbsPath(<<"r", "a", "1">>)
P2 == AbsPath(<<"r", "b", "1">>)
P3 == AbsPath(<<"r", "b", "2">>)
\* What parse makes of the PathInfo line `... ../o`: rootdir joined with it.
PX == AbsPath(<<"r", "..", "o">>)

\* The sources a `symlink <t> -> <src>` line gives: one absolute, one relative.
ExplicitSources == { P1, RelPath(<<"1">>) }

PathsOf(d) == IF d = "dotdot" THEN {P1, P2, PX} ELSE {P1, P2, P3}
MaxEntriesOf(d) == IF d = "dotdot" THEN MaxEntries - 1 ELSE MaxEntries

EntriesOver(ps) ==
    {FilePath(p, "keep", NoneVal) : p \in ps}
        \cup {FilePath(p, "delete", NoneVal) : p \in ps}
        \cup {FilePath(p, "symlink", NoneVal) : p \in ps}
        \cup {FilePath(p, "symlink", Some(x)) : p \in ps, x \in ExplicitSources}

SnapshotsOf(d) ==
    {[rootdir |-> RootDir, duplicates |-> <<[hash |-> GroupHash, filepaths |-> g]>>] :
        g \in UNION {[1..k -> EntriesOver(PathsOf(d))] : k \in 1..MaxEntriesOf(d)}}

\* The filesystems the program is started on: four copies of c1, or one of
\* them changed or removed since the snapshot was written.
BaseFs == [s \in Slots |-> File("c1")]
InitialFs ==
    { BaseFs,
      [BaseFs EXCEPT ![P1.comps] = File("c2")],
      [BaseFs EXCEPT ![P2.comps] = File("c2")],
      [BaseFs EXCEPT ![P2.comps] = Absent] }

\* The filesystems in which one listed path has already been replaced by a
\* link: /r/b/1 to /r/a/1 (absolute, or relative as replace_with_symlink
\* writes it) or to /r/b/2, and /r/b/2 to its neighbour `1`.
LinkedFs ==
    { [BaseFs EXCEPT ![P2.comps] = Link(P1)],
      [BaseFs EXCEPT ![P2.comps] = Link(RelPath(<<"..", "a", "1">>))],
      [BaseFs EXCEPT ![P2.comps] = Link(P3)],
      [BaseFs EXCEPT ![P3.comps] = Link(RelPath(<<"1">>))] }

\* The filesystems `apply` is started on: every file in place, /r/b/2
\* changed, /r/b/1 removed, or /r/b/1 already linked to /r/a/1.
ApplyFs ==
    { BaseFs,
      [BaseFs EXCEPT ![P3.comps] = File("c2")],
      [BaseFs EXCEPT ![P2.comps] = Absent],
      [BaseFs EXCEPT ![P2.comps] = Link(RelPath(<<"..", "a", "1">>))] }

\* The filesystems `apply` and then `find` are run on: the four files under
\* the root alike, or /r/a/2 (which no snapshot lists) of another content.
FindFs == { BaseFs, [BaseFs EXCEPT ![<<"r", "a", "2">>] = File("c2")] }

\* The filesystems in which /r/b/1 is a link whose source is missing: the
\* removed /r/b/2, absolute or relative, or the link itself.
DanglingFs ==
    { [BaseFs EXCEPT ![P3.comps] = Absent, ![P2.comps] = Link(P3)],
      [BaseFs EXCEPT ![P3.comps] = Absent, ![P2.comps] = Link(RelPath(<<"2">>))],
      [BaseFs EXCEPT ![P2.comps] = Link(P2)] }

FsOf(d) ==
    IF d = "links" THEN LinkedFs
    ELSE IF d = "dangling" THEN DanglingFs
    ELSE IF d = "apply" THEN ApplyFs
    ELSE IF d = "find" THEN FindFs
    ELSE InitialFs

Commands ==
    {[name |-> "none", dry_run |-> FALSE, allow_full_deletion |-> FALSE]}
        \cup {[name |-> "validate", dry_run |-> FALSE, allow_full_deletion |-> a] :
                a \in BOOLEAN}
        \cup {[name |-> "apply", dry_run |-> d, allow_full_deletion |-> FALSE] :
                d \in BOOLEAN}

\* The command lines of a run: any, or those of `validate` alone.
CommandsOf(d) ==
    IF d = "validate" THEN {c \in Commands : c.name = "validate"}
    ELSE IF d \in {"links", "dangling"}
         THEN {c \in Commands : c.name = "validate" /\ ~c.allow_full_deletion}
    ELSE IF d = "apply" THEN {c \in Commands : c.name = "apply"}
    ELSE IF d = "find" THEN {c \in Commands : c.name = "apply" /\ ~c.dry_run}
    ELSE Commands

NoSnapshot == [rootdir |-> RootDir, duplicates |-> <<>>]
NoResult == [ok |-> FALSE, err |-> [kind |-> "", path |-> NoneVal]]

(***************************************************************************)
(* main (main.rs).  The Result of Cli::execute, and the status main ends   *)
(* the process with: Ok exits 0, an error other than Cmd exits 1, and the  *)
(* Cmd arm prints and returns from main.                                   *)
(***************************************************************************)
main_exit(res) ==
    IF res = "Ok" THEN 0
    ELSE IF res = "Cmd" THEN 0
    ELSE IF res = "panic" THEN 101
    ELSE 1

Finish(res) ==
    /\ outcome' = res
    /\ exit' = main_exit(res)
    /\ pc' = "exited"

\* Cli::parse and the dispatch of Cli::execute.
Invoke ==
    /\ pc = "start"
    /\ \E c \in (IF run = 1 THEN CommandsOf(dom) ELSE {cmd}) :
        /\ cmd' = c
        /\ IF c.name = "none"
           THEN Finish("Cmd")
           ELSE pc' = "read" /\ UNCHANGED <<outcome, exit>>
    /\ UNCHANGED <<fs, backup, cwd, snap, result, todo, run, hist, dom, callvars, scanvars, textvars>>

\* read_input and textformat::parse at the head of cmd_validate and cmd_apply.
ReadInput ==
    /\ pc = "read"
    /\ \E src \in {"path", "stdin", "neither", "unreadable", "malformed", "panics"} :
        CASE src = "neither" -> Finish("Cmd") /\ UNCHANGED snap
          [] src = "unreadable" -> Finish("Io") /\ UNCHANGED snap
          [] src = "malformed" -> Finish("SnapshotParsing") /\ UNCHANGED snap
          [] src = "panics" -> Finish("panic") /\ UNCHANGED snap
          [] OTHER ->
                /\ IF run = 1
                   THEN \E s \in SnapshotsOf(dom) : snap' = s
                   ELSE UNCHANGED snap
                /\ pc' = "validate"
                /\ UNCHANGED <<outcome, exit>>
    /\ UNCHANGED <<fs, backup, cwd, cmd, result, todo, run, hist, dom, callvars, scanvars, textvars>>

\* snapshot.validate(allow_full_deletion) and what cmd_validate and cmd_apply
\* do with its result up to the confirmation prompt.
AfterValidate(r) ==
    /\ result' = r
    /\ IF ~r.ok THEN Finish("SnapshotValidation") /\ UNCHANGED todo
       ELSE IF cmd.name = "validate" THEN Finish("Ok") /\ UNCHANGED todo
       ELSE IF cmd.dry_run
       THEN /\ todo' = pending_actions(r.val, TRUE)
            /\ pc' = "execute"
            /\ UNCHANGED <<outcome, exit>>
       ELSE /\ pc' = "confirm"
            /\ UNCHANGED <<todo, outcome, exit>>

Validate ==
    /\ pc = "validate"
    /\ AfterValidate(Snapshot_validate(fs, cwd, snap, cmd.allow_full_deletion))
    /\ UNCHANGED <<fs, backup, cwd, cmd, snap, run, hist, dom, callvars, scanvars, textvars>>

\* The prompt of cmd_apply: yes goes on to executor::execute, no is
\* process::exit(0), a prompt error is process::exit(1).
Confirm ==
    /\ pc = "confirm"
    /\ \E ans \in {"yes", "no", "error"} :
        CASE ans = "yes" ->
                /\ todo' = pending_actions(result.val, FALSE)
                /\ pc' = "execute"
                /\ UNCHANGED <<outcome, exit>>
          [] ans = "no" ->
                /\ outcome' = "Aborted" /\ exit' = 0 /\ pc' = "exited"
                /\ UNCHANGED todo
          [] OTHER ->
                /\ outcome' = "PromptError" /\ exit' = 1 /\ pc' = "exited"
                /\ UNCHANGED todo
    /\ UNCHANGED <<fs, backup, cwd, cmd, snap, result, run, hist, dom, callvars, scanvars, textvars>>

\* One turn of the loop of executor::execute.
\* A loop that goes on to the next action after a failure.
AfterAction_continuing(o) == fs' = o.fs /\ backup' = o.backup /\ todo' = Tail(todo) /\ UNCHANGED <<pc, outcome, exit>>

AfterAction(o) ==
    /\ fs' = o.fs
    /\ backup' = o.backup
    /\ IF o.status = "ok"
       THEN todo' = Tail(todo) /\ UNCHANGED <<pc, outcome, exit>>
       ELSE /\ Finish(IF o.status = "panic" THEN "panic" ELSE "Io")
            /\ UNCHANGED todo

ExecuteStep ==
    /\ pc = "execute"
    /\ todo # <<>>
    /\ AfterAction(IF cmd.dry_run
                   THEN Action_dry_run(fs, backup, Head(todo), snap.rootdir)
                   ELSE Action_execute(fs, backup, cwd, Head(todo), TRUE, snap.rootdir))
    /\ UNCHANGED <<cwd, cmd, snap, result, run, hist, dom, callvars, scanvars, textvars>>

\* The end of executor::execute: every pending action was performed.
ExecuteDone ==
    /\ pc = "execute"
    /\ todo = <<>>
    /\ Finish("Ok")
    /\ UNCHANGED <<fs, backup, cwd, cmd, snap, result, todo, run, hist, dom, callvars, scanvars, textvars>>

\* After an apply that went through, the user runs the same command on the
\* same snapshot file again.
Rerun ==
    /\ pc = "exited"
    /\ outcome = "Ok"
    /\ cmd.name = "apply" /\ ~cmd.dry_run
    /\ run < MaxRuns
    /\ run' = run + 1
    /\ hist' = Append(hist, [cmd |-> cmd, outcome |-> outcome, exit |-> exit])
    /\ pc' = "start"
    /\ result' = NoResult
    /\ todo' = <<>>
    /\ outcome' = ""
    /\ exit' = -1
    /\ UNCHANGED <<fs, backup, cwd, cmd, snap, dom, callvars, scanvars, textvars>>

InitWith(d) ==
    /\ fs \in FsOf(d)
    /\ backup = {}
    /\ cwd = <<>>
    /\ pc = "start"
    /\ cmd = [name |-> "none", dry_run |-> FALSE, allow_full_deletion |-> FALSE]
    /\ snap = NoSnapshot
    /\ result = NoResult
    /\ todo = <<>>
    /\ outcome = ""
    /\ exit = -1
    /\ run = 1
    /\ hist = <<>>
    /\ dom = d
    /\ args = NoneVal
    /\ ret = NoneVal
    /\ dirqueue = <<>>
    /\ reads = <<>>
    /\ quick = FALSE
    /\ skip_deduped = FALSE
    /\ found = NoneVal
    /\ excludes = NoneVal
    /\ paths = <<>>
    /\ dups = <<>>
    /\ tsnap = NoneVal
    /\ lines = <<>>
    /\ parsed = NoneVal

Init == InitWith("tree")

Next ==
    \/ Invoke
    \/ ReadInput
    \/ Validate
    \/ Confirm
    \/ ExecuteStep
    \/ ExecuteDone
    \/ Rerun

Spec == Init /\ [][Next]_vars

\* The same program on snapshots whose relative paths may hold "..".
InitDotDot == InitWith("dotdot")
SpecDotDot == InitDotDot /\ [][Next]_vars

\* The validate command alone.
InitValidate == InitWith("validate")
NextValidate == Invoke \/ ReadInput \/ Validate
SpecValidate == InitValidate /\ [][NextValidate]_vars

\* The apply command, once.
InitApply == InitWith("apply")
NextApply == Invoke \/ ReadInput \/ Validate \/ Confirm \/ ExecuteStep \/ ExecuteDone
SpecApply == InitApply /\ [][NextApply]_vars

\* The validate command on files of which one is already a link.
InitLinks == InitWith("links")
SpecLinks == InitLinks /\ [][NextValidate]_vars

\* The validate command on files of which one is a link to nothing.
InitDangling == InitWith("dangling")
SpecDangling == InitDangling /\ [][NextValidate]_vars

(***************************************************************************)
(* Scanner (scanner.rs).  A map HashMap<u64, Vec<&PathBuf>> is a function  *)
(* from its keys to sequences of paths.  Where the source iterates a       *)
(* HashMap the keys are taken in ascending order.                          *)
(***************************************************************************)
\* The names fs::read_dir finds in the directory at d.
NamesIn(f, d) ==
    {x \in Dirs \cup Slots :
        /\ Len(x) = Len(d) + 1
        /\ IsPrefix(d, x)
        /\ (x \in Dirs \/ f[x].kind # "none")}

RECURSIVE InNameOrder(_)
InNameOrder(S) ==
    IF S = {} THEN <<>>
    ELSE LET m == CHOOSE x \in S :
                      \A y \in S : NameRank(x[Len(x)]) <= NameRank(y[Len(y)])
         IN  <<m[Len(m)]>> \o InNameOrder(S \ {m})

\* entry.path(): the directory's path joined with the entry's name.
EntryPaths(p, names) == [i \in 1..Len(names) |-> path_join(p, RelPath(<<names[i]>>))]

ListDir(f, s, p) ==
    IF s.kind = "dir" THEN Ok(EntryPaths(p, InNameOrder(NamesIn(f, s.at))))
    ELSE Err("Io", Some(p))

\* fs::read_dir
read_dir(f, wd, p) == ListDir(f, Stat(f, wd, p, TRUE), p)

\* Path::is_dir
is_dir(f, wd, p) == Stat(f, wd, p, TRUE).kind = "dir"

IsExcluded(excl, ep) == excl.some /\ ep \in excl.val

\* result.push(ep) for the files of one directory, ahead of what the rest of
\* the queue yields.
PushFiles(files, rest) == IF rest.ok THEN Ok(files \o rest.val) ELSE rest

\* The loop of scanner::traverse_bfs: the queue of directories to read.
RECURSIVE Bfs(_, _, _, _)
VisitDir(f, wd, entries, queue, excl) ==
    IF ~entries.ok THEN entries
    ELSE LET IsFile(ep) == ~IsExcluded(excl, ep) /\ ~is_dir(f, wd, ep)
             IsDir(ep) == ~IsExcluded(excl, ep) /\ is_dir(f, wd, ep)
         IN  PushFiles(SelectSeq(entries.val, IsFile),
                       Bfs(f, wd, queue \o SelectSeq(entries.val, IsDir), excl))

Bfs(f, wd, queue, excl) ==
    IF queue = <<>> THEN Ok(<<>>)
    ELSE VisitDir(f, wd, read_dir(f, wd, Head(queue)), Tail(queue), excl)

\* scanner::traverse_bfs
traverse_bfs(f, wd, dirpath, excl) == Bfs(f, wd, <<dirpath>>, excl)

\* scanner::is_path_valid
TargetWithin(t, canon_rootdir) ==
    IF t.ok THEN within_rootdir(canon_rootdir.val, t.val) ELSE FALSE

is_path_valid(f, wd, rootdir, path) ==
    IF is_symlink(f, wd, path)
    THEN TargetWithin(canonicalize(f, wd, path), canonicalize(f, wd, rootdir))
    ELSE path.comps = <<>> \/ path.comps[Len(path.comps)] # "Icon\\r"

\* The elements of `ps` whose key is k, in their order.
RECURSIVE WithKey(_, _, _)
WithKey(ps, keys, k) ==
    IF ps = <<>> THEN <<>>
    ELSE (IF Head(keys) = k THEN <<Head(ps)>> ELSE <<>>)
            \o WithKey(Tail(ps), Tail(keys), k)

\* The map filled by `match res.get_mut(&key)`: each key with the paths that
\* have it; an error of any key computation is returned instead.
GroupByKey(ps, keys) ==
    IF \E i \in 1..Len(keys) : ~keys[i].ok
    THEN Err("Io", NoneVal)
    ELSE Ok([k \in {keys[i].val : i \in 1..Len(keys)} |->
                WithKey(ps, [i \in 1..Len(keys) |-> keys[i].val], k)])

\* HashMap::retain(|_, v| v.len() > 1)
RetainGroups(m) == [k \in {x \in DOMAIN m : Len(m[x]) > 1} |-> m[k]]

\* path.metadata()?.len()
LenOfBytes(b) == IF b.ok THEN Ok(metadata_len(b.val)) ELSE b

metadata_len_of(f, wd, p) == LenOfBytes(file_contents_as_bytes(f, wd, p))

\* scanner::group_by_size
group_by_size(f, wd, ps) ==
    GroupByKey(ps, [i \in 1..Len(ps) |-> metadata_len_of(f, wd, ps[i])])

\* The paths of all groups of a map, the groups in ascending key order.
RECURSIVE Flatten(_, _)
Flatten(m, ks) ==
    IF ks = {} THEN <<>>
    ELSE LET k == CHOOSE x \in ks : \A y \in ks : x <= y
         IN  m[k] \o Flatten(m, ks \ {k})

FlattenRetained(grps) ==
    IF grps.ok THEN Ok(Flatten(RetainGroups(grps.val), DOMAIN RetainGroups(grps.val)))
    ELSE grps

\* scanner::possible_duplicates
possible_duplicates(f, wd, ps) == FlattenRetained(group_by_size(f, wd, ps))

RetainOk(grps) == IF grps.ok THEN Ok(RetainGroups(grps.val)) ELSE grps

GroupByXxh3(f, wd, ps) ==
    IF ps.ok
    THEN RetainOk(GroupByKey(ps.val,
                     [i \in 1..Len(ps.val) |-> Checksum_of_file(f, wd, ps.val[i])]))
    ELSE ps

\* scanner::group_dups_by_xxh3 (of what possible_duplicates returned)
group_dups_by_xxh3(f, wd, ps) == GroupByXxh3(f, wd, ps)

\* The sha256 digests of the files of a group (a file that cannot be read
\* panics the unwrap: "panic" stands for it).
sha256hashes(f, wd, ps) ==
    {IF file_contents_as_bytes(f, wd, ps[i]).ok
     THEN sha256(file_contents_as_bytes(f, wd, ps[i]).val)
     ELSE "panic" : i \in 1..Len(ps)}

\* scanner::confirm_dups
confirm_dups(f, wd, m) ==
    IF ~m.ok THEN m
    ELSE Ok([k \in {x \in DOMAIN m.val :
                        Cardinality(sha256hashes(f, wd, m.val[x])) = 1} |-> m.val[k]])

\* The filter of scanner::group_duplicates
valid_paths(f, wd, rootdir, ps) ==
    LET Valid(p) == is_path_valid(f, wd, rootdir, p) IN SelectSeq(ps, Valid)

\* scanner::group_duplicates
group_duplicates(f, wd, rootdir, ps, q) ==
    IF q
    THEN confirm_dups(f, wd,
             group_dups_by_xxh3(f, wd,
                 possible_duplicates(f, wd, valid_paths(f, wd, rootdir, ps))))
    ELSE group_dups_by_xxh3(f, wd,
             possible_duplicates(f, wd, valid_paths(f, wd, rootdir, ps)))

\* What scan returns for the map of group_duplicates: the same groups with
\* owned paths; an error leaves no map.
ScanResult(d) == IF d.ok THEN d.val ELSE <<>>

\* scanner::scan, with the list traverse_bfs produced
ScanFrom(f, wd, rootdir, ps, q) ==
    IF ps.ok THEN group_duplicates(f, wd, rootdir, ps.val, q) ELSE ps

\* The trees the scanner is run on: under the root each slot is absent, a
\* file, a link to a file in or outside the root, or a broken link.
ScanNodes ==
    { Absent, File("c1"), File("c3"), File("c4"),
      Link(AbsPath(<<"r", "a", "1">>)), Link(AbsPath(<<"o">>)),
      Link(RelPath(<<"gone">>)) }

ScanFs ==
    {f \in [Slots -> ScanNodes] : f[<<"o">>] = File("c1")}

ScanExcludes == { NoneVal, Some({AbsPath(<<"r", "b">>)}) }

\* scan(rootdir, excludes, quick), from the traversal to the returned map.
Scan ==
    /\ pc = "scan"
    /\ paths' = ScanResult(traverse_bfs(fs, cwd, RootDir, excludes))
    /\ dups' = ScanResult(ScanFrom(fs, cwd, RootDir,
                                   traverse_bfs(fs, cwd, RootDir, excludes), quick))
    /\ pc' = "scanned"
    /\ UNCHANGED <<fs, backup, cwd, cmd, snap, result, todo, outcome, exit, run,
                   hist, dom, callvars, quick, excludes, skip_deduped, found, textvars>>

InitScan ==
    /\ fs \in ScanFs
    /\ quick \in BOOLEAN
    /\ skip_deduped = FALSE
    /\ found = NoneVal
    /\ excludes \in ScanExcludes
    /\ paths = <<>>
    /\ dups = <<>>
    /\ tsnap = NoneVal
    /\ lines = <<>>
    /\ parsed = NoneVal
    /\ pc = "scan"
    /\ backup = {}
    /\ cwd = <<>>
    /\ cmd = [name |-> "none", dry_run |-> FALSE, allow_full_deletion |-> FALSE]
    /\ snap = NoSnapshot
    /\ result = NoResult
    /\ todo = <<>>
    /\ outcome = ""
    /\ exit = -1
    /\ run = 1
    /\ hist = <<>>
    /\ dom = "scan"
    /\ args = NoneVal
    /\ ret = NoneVal
    /\ dirqueue = <<>>
    /\ reads = <<>>

NextScan == Scan

SpecScan == InitScan /\ [][NextScan]_vars

(***************************************************************************)
(* traverse_bfs step by step (scanner.rs): one turn of its loop reads the  *)
(* directory at the front of the queue.  The trees are those in which      *)
(* /r/b/1, and with it /r/a/2, is a file or a link to a file or to a       *)
(* directory: to the root, to the parent, to a sibling, to each other.     *)
(***************************************************************************)
TreeFs ==
    { BaseFs,
      [BaseFs EXCEPT ![P2.comps] = Link(P1)],
      [BaseFs EXCEPT ![P2.comps] = Link(AbsPath(<<"r", "a">>))],
      [BaseFs EXCEPT ![P2.comps] = Link(RootDir)],
      [BaseFs EXCEPT ![P2.comps] = Link(RelPath(<<"..">>))],
      [BaseFs EXCEPT ![P2.comps] = Link(AbsPath(<<"r", "a">>)),
                     ![<<"r", "a", "2">>] = Link(AbsPath(<<"r", "b">>))] }

TreeExcludes ==
    { NoneVal, Some({AbsPath(<<"r", "a">>)}), Some({AbsPath(<<"r", "b">>)}) }

\* The body of `for entry in fs::read_dir(p)?`: directories go to the back of
\* the queue, other entries to the result; an error of read_dir is returned.
ReadFront(entries) ==
    LET IsFile(ep) == ~IsExcluded(excludes, ep) /\ ~is_dir(fs, cwd, ep)
        IsDir(ep) == ~IsExcluded(excludes, ep) /\ is_dir(fs, cwd, ep)
    IN  IF entries.ok
        THEN /\ dirqueue' = Tail(dirqueue) \o SelectSeq(entries.val, IsDir)
             /\ paths' = paths \o SelectSeq(entries.val, IsFile)
             /\ UNCHANGED <<pc, ret>>
        ELSE /\ ret' = Some(entries)
             /\ pc' = "traversed"
             /\ UNCHANGED <<dirqueue, paths>>

\* Some(p) of queue.pop_front()
TraverseStep ==
    /\ pc = "traverse"
    /\ dirqueue # <<>>
    /\ reads' = Append(reads, Head(dirqueue))
    /\ ReadFront(read_dir(fs, cwd, Head(dirqueue)))
    /\ UNCHANGED <<fs, backup, cwd, cmd, snap, result, todo, outcome, exit, run,
                   hist, dom, args, quick, excludes, dups, skip_deduped, found, textvars>>

\* None of queue.pop_front(): Ok(result)
TraverseReturn ==
    /\ pc = "traverse"
    /\ dirqueue = <<>>
    /\ ret' = Some(Ok(paths))
    /\ pc' = "traversed"
    /\ UNCHANGED <<fs, backup, cwd, cmd, snap, result, todo, outcome, exit, run,
                   hist, dom, args, dirqueue, reads, scanvars, textvars>>

InitTraverse ==
    /\ fs \in TreeFs
    /\ excludes \in TreeExcludes
    /\ dirqueue = <<RootDir>>
    /\ reads = <<>>
    /\ paths = <<>>
    /\ pc = "traverse"
    /\ dom = "traverse"
    /\ args = NoneVal
    /\ ret = NoneVal
    /\ quick = FALSE
    /\ skip_deduped = FALSE
    /\ found = NoneVal
    /\ dups = <<>>
    /\ tsnap = NoneVal
    /\ lines = <<>>
    /\ parsed = NoneVal
    /\ backup = {}
    /\ cwd = <<>>
    /\ cmd = [name |-> "none", dry_run |-> FALSE, allow_full_deletion |-> FALSE]
    /\ snap = NoSnapshot
    /\ result = NoResult
    /\ todo = <<>>
    /\ outcome = ""
    /\ exit = -1
    /\ run = 1
    /\ hist = <<>>

NextTraverse == TraverseStep \/ TraverseReturn

SpecTraverse == InitTraverse /\ [][NextTraverse]_vars

(***************************************************************************)
(* find (main.rs cmd_find, snapshot/mod.rs Snapshot::of_rootdir).  The     *)
(* HashMap of the snapshot is given as the sequence of its groups in       *)
(* ascending order of the keys.                                            *)
(***************************************************************************)
\* scanner::scan
scan(f, wd, rootdir, excl, q) ==
    ScanFrom(f, wd, rootdir, traverse_bfs(f, wd, rootdir, excl), q)

\* Result::ok of path.read_link()
LinkSource(r) == IF r.ok THEN Some(r.val) ELSE NoneVal

\* snapshot::FilePath::new
FilePath_new(f, wd, path) ==
    IF is_symlink(f, wd, path)
    THEN FilePath(path, "symlink", LinkSource(read_link(f, wd, path)))
    ELSE FilePath(path, "keep", NoneVal)

\* The keys of a map in ascending order.
RECURSIVE KeysAscending(_)
KeysAscending(K) ==
    IF K = {} THEN <<>>
    ELSE LET least == CHOOSE x \in K : \A y \in K : x <= y
         IN  <<least>> \o KeysAscending(K \ {least})

\* The group of one (checksum, paths) pair of the scan.
GroupOf(f, wd, checksum, ps) ==
    [hash |-> checksum, filepaths |-> [i \in 1..Len(ps) |-> FilePath_new(f, wd, ps[i])]]

\* .filter(|(_, group)| !(*skip_deduped && is_group_deduped(group)))
KeepGroup(group, skip) == ~(skip /\ is_group_deduped(group.filepaths))

RECURSIVE FilterGroups(_, _, _, _, _)
FilterGroups(f, wd, m, keys, skip) ==
    IF keys = <<>> THEN <<>>
    ELSE (IF KeepGroup(GroupOf(f, wd, Head(keys), m[Head(keys)]), skip)
          THEN <<GroupOf(f, wd, Head(keys), m[Head(keys)])>> ELSE <<>>)
            \o FilterGroups(f, wd, m, Tail(keys), skip)

OfScan(f, wd, rootdir, d, skip) ==
    IF ~d.ok THEN d
    ELSE Ok([rootdir |-> rootdir, generated_at |-> "t1",
             duplicates |-> FilterGroups(f, wd, d.val, KeysAscending(DOMAIN d.val), skip)])

\* snapshot::Snapshot::of_rootdir
Snapshot_of_rootdir(f, wd, rootdir, excl, q, skip) ==
    OfScan(f, wd, rootdir, scan(f, wd, rootdir, excl, q), skip)

\* cmd_find up to the snapshot it renders: run on the files as they are
\* before any command, or after an apply that went through.  `dups` keeps
\* the map that scan returned inside Snapshot::of_rootdir.
FoundFrom(d, q) ==
    /\ quick' = q
    /\ dups' = ScanResult(d)
    /\ \E s \in BOOLEAN :
          /\ skip_deduped' = s
          /\ found' = Some(OfScan(fs, cwd, RootDir, d, s))

cmd_find ==
    /\ pc = "start" \/ (pc = "exited" /\ outcome = "Ok")
    /\ \E q \in BOOLEAN : FoundFrom(scan(fs, cwd, RootDir, excludes, q), q)
    /\ pc' = "found"
    /\ UNCHANGED <<fs, backup, cwd, cmd, snap, result, todo, outcome, exit, run,
                   hist, dom, callvars, excludes, paths, textvars>>

\* apply, once, and find.
InitFind == InitWith("find")
NextFind ==
    Invoke \/ ReadInput \/ Validate \/ Confirm \/ ExecuteStep \/ ExecuteDone \/ cmd_find
SpecFind == InitFind /\ [][NextFind]_vars

(***************************************************************************)
(* Text format (snapshot/textformat.rs).  A String is a sequence of        *)
(* tokens: the characters the format gives a meaning to (" ", "#", "!",    *)
(* ":", "[", "]", "/" and the two-character "->") and runs of other        *)
(* characters (a run holds blanks only where no rule of the format looks   *)
(* at them).  A Line is a record with the fields of its variant.           *)
(***************************************************************************)
\* The characters of a file name: the name "x->y" holds an arrow.
Chars(name) == IF name = "x->y" THEN <<"x", "->", "y">> ELSE <<name>>

\* The string a run of tokens spells.
RECURSIVE Spell(_)
Spell(s) == IF s = <<>> THEN "" ELSE Head(s) \o Spell(Tail(s))

\* str::trim
RECURSIVE trim_start(_)
trim_start(s) == IF s # <<>> /\ Head(s) = " " THEN trim_start(Tail(s)) ELSE s

RECURSIVE trim_end(_)
trim_end(s) ==
    IF s # <<>> /\ s[Len(s)] = " " THEN trim_end(SubSeq(s, 1, Len(s) - 1)) ELSE s

trim(s) == trim_end(trim_start(s))

\* str::find of one token: its first index, 0 if it does not occur.
Find(s, t) ==
    IF \E i \in 1..Len(s) : s[i] = t
    THEN CHOOSE i \in 1..Len(s) : s[i] = t /\ \A j \in 1..(i - 1) : s[j] # t
    ELSE 0

\* str::split
RECURSIVE split(_, _)
SplitAt(s, sep, i) ==
    IF i = 0 THEN <<s>>
    ELSE <<SubSeq(s, 1, i - 1)>> \o split(SubSeq(s, i + 1, Len(s)), sep)

split(s, sep) == SplitAt(s, sep, Find(s, sep))

\* Path::display and Path::to_str
RECURSIVE JoinNames(_)
JoinNames(comps) ==
    IF comps = <<>> THEN <<>>
    ELSE IF Len(comps) = 1 THEN Chars(comps[1])
    ELSE Chars(Head(comps)) \o <<"/">> \o JoinNames(Tail(comps))

display(p) == (IF p.abs THEN <<"/">> ELSE <<>>) \o JoinNames(p.comps)

\* PathBuf::from: the components between the separators.
NamesOf(pieces) ==
    LET NonEmpty(x) == x # <<>>
        kept == SelectSeq(pieces, NonEmpty)
    IN  [i \in 1..Len(kept) |-> Spell(kept[i])]

PathBuf_from(s) ==
    [abs |-> s # <<>> /\ Head(s) = "/", comps |-> NamesOf(split(s, "/"))]

Comment(c) == [kind |-> "Comment", text |-> c]
MetaData(k, v) == [kind |-> "MetaData", key |-> k, val |-> v]
ChecksumLine(h) == [kind |-> "Checksum", hash |-> h]
PathInfo(p, o, d, e) ==
    [kind |-> "PathInfo", path |-> p, op |-> o, delim |-> d, extra |-> e]
Blank == [kind |-> "Blank"]

\* Line::encode that writes the delimiter of a PathInfo whenever it has one.
Line_encode_arrow(line) ==
    CASE line.kind = "Comment" -> <<"#", " ">> \o line.text
      [] line.kind = "MetaData" ->
            <<"#", "!", " ">> \o line.key \o <<":", " ">> \o line.val
      [] line.kind = "Checksum" -> <<"[">> \o line.hash \o <<"]">>
      [] line.kind = "PathInfo" ->
            <<line.op, " ">> \o line.path
                \o (IF line.delim.some THEN <<" ">> \o line.delim.val \o <<" ">> ELSE <<>>)
                \o (IF line.extra.some THEN line.extra.val ELSE <<>>)
      [] OTHER -> <<>>

\* Line::encode
Line_encode(line) ==
    CASE line.kind = "Comment" -> <<"#", " ">> \o line.text
      [] line.kind = "MetaData" ->
            <<"#", "!", " ">> \o line.key \o <<":", " ">> \o line.val
      [] line.kind = "Checksum" -> <<"[">> \o line.hash \o <<"]">>
      [] line.kind = "PathInfo" ->
            IF line.extra.some
            THEN <<line.op, " ">> \o line.path \o <<" ">> \o line.delim.val
                    \o <<" ">> \o line.extra.val
            ELSE <<line.op, " ">> \o line.path
      [] OTHER -> <<>>

\* ^#!\s*([^:]+):\s*(.+)$ on the text after "#!": the key runs to the first
\* colon (without the blanks before it, unless it is blanks only: the last
\* one is then the key), the value is the rest after the blanks.
KeyOf(before) == IF trim_start(before) = <<>> THEN <<" ">> ELSE trim_start(before)

MetaDataAt(rest, c) ==
    IF c <= 1 \/ c = Len(rest) THEN Err("SnapshotParsing", NoneVal)
    ELSE Ok(MetaData(KeyOf(SubSeq(rest, 1, c - 1)),
                     trim_start(SubSeq(rest, c + 1, Len(rest)))))

\* decode_metadata that reads a `#!` line without a colon as a comment.
decode_metadata_lenient(cleaned) ==
    IF Find(SubSeq(cleaned, 3, Len(cleaned)), ":") = 0
    THEN Ok(Comment(trim_start(SubSeq(cleaned, 3, Len(cleaned)))))
    ELSE MetaDataAt(SubSeq(cleaned, 3, Len(cleaned)),
                    Find(SubSeq(cleaned, 3, Len(cleaned)), ":"))

decode_metadata(cleaned) ==
    MetaDataAt(SubSeq(cleaned, 3, Len(cleaned)),
               Find(SubSeq(cleaned, 3, Len(cleaned)), ":"))

\* ^#\s(.+)$
decode_comment(cleaned) ==
    IF Len(cleaned) >= 3 /\ cleaned[2] = " "
    THEN Ok(Comment(SubSeq(cleaned, 3, Len(cleaned))))
    ELSE Err("SnapshotParsing", NoneVal)

\* ^\[([^\]]+)\]
ChecksumAt(cleaned, c) ==
    IF c >= 3 THEN Ok(ChecksumLine(SubSeq(cleaned, 2, c - 1)))
    ELSE Err("SnapshotParsing", NoneVal)

decode_checksum(cleaned) == ChecksumAt(cleaned, Find(cleaned, "]"))

\* The parts of a symlink line: split on "->", trimmed, the empty ones dropped.
SymlinkParts(pieces) ==
    LET NonEmpty(x) == x # <<>> IN
    SelectSeq([i \in 1..Len(pieces) |-> trim(pieces[i])], NonEmpty)

SymlinkLine(op, parts) ==
    IF Len(parts) = 2 THEN Ok(PathInfo(parts[1], op, Some(<<"->">>), Some(parts[2])))
    ELSE IF Len(parts) = 1 THEN Ok(PathInfo(parts[1], op, Some(<<"->">>), NoneVal))
    ELSE Err("SnapshotParsing", NoneVal)

\* ^(keep|symlink|delete)\s(.+)$ and what follows it
decode_pathinfo(cleaned) ==
    IF Len(cleaned) >= 3 /\ cleaned[1] \in {"keep", "symlink", "delete"}
           /\ cleaned[2] = " "
    THEN IF cleaned[1] = "symlink"
         THEN SymlinkLine(cleaned[1],
                          SymlinkParts(split(SubSeq(cleaned, 3, Len(cleaned)), "->")))
         ELSE Ok(PathInfo(SubSeq(cleaned, 3, Len(cleaned)), cleaned[1],
                          NoneVal, NoneVal))
    ELSE Err("SnapshotParsing", NoneVal)

DecodeCleaned(cleaned) ==
    IF cleaned = <<>> THEN Ok(Blank)
    ELSE IF cleaned[1] = "#" THEN
        IF Len(cleaned) = 1 THEN Ok(Comment(<<>>))
        ELSE IF cleaned[2] = "!" THEN decode_metadata(cleaned)
        ELSE decode_comment(cleaned)
    ELSE IF cleaned[1] = "[" THEN decode_checksum(cleaned)
    ELSE decode_pathinfo(cleaned)

\* Line::decode
Line_decode(s) == DecodeCleaned(trim(s))

\* Line::pathinfo; the unwrap of normalize_path panics on a path that is not
\* under the root.
PathInfoOf(filepath, rel) ==
    IF ~rel.ok THEN [status |-> "panic"]
    ELSE [status |-> "ok",
          line |-> IF filepath.op = "symlink"
                   THEN PathInfo(display(rel.val), filepath.op, Some(<<"->">>),
                                 IF filepath.source.some
                                 THEN Some(display(filepath.source.val))
                                 ELSE NoneVal)
                   ELSE PathInfo(display(rel.val), filepath.op, NoneVal, NoneVal)]

Line_pathinfo(filepath, rootdir) ==
    PathInfoOf(filepath, normalize_path(filepath.path, TRUE, rootdir))

\* find_keeper(x.1).and_then(|fp| fp.size().ok()).unwrap_or(0)
SizeOr0(size) == IF size.ok THEN size.val ELSE 0

KeeperSize(f, wd, keeper) ==
    IF keeper.some THEN SizeOr0(metadata_len_of(f, wd, keeper.val.path)) ELSE 0

\* sort_by(|a, b| b.2.cmp(&a.2)): stable, the larger size first.
RECURSIVE InsertBySize(_, _)
InsertBySize(g, sorted) ==
    IF sorted = <<>> THEN <<g>>
    ELSE IF Head(sorted).size >= g.size THEN <<Head(sorted)>> \o InsertBySize(g, Tail(sorted))
    ELSE <<g>> \o sorted

RECURSIVE SortBySize(_)
SortBySize(gs) ==
    IF gs = <<>> THEN <<>>
    ELSE InsertBySize(gs[Len(gs)], SortBySize(SubSeq(gs, 1, Len(gs) - 1)))

\* textformat::sorted_groups
sorted_groups(f, wd, duplicates) ==
    SortBySize([i \in 1..Len(duplicates) |->
        [hash |-> duplicates[i].hash, filepaths |-> duplicates[i].filepaths,
         size |-> KeeperSize(f, wd, snapshot_find_keeper(duplicates[i].filepaths))]])

\* Display of Checksum and u64, and str::parse::<u64>
Numerals == {"7", "9"}
NumeralOf(n) == IF n = 7 THEN "7" ELSE "9"
Checksum_display(n) == <<NumeralOf(n)>>
Checksum_parse(s) ==
    IF Len(s) = 1 /\ s[1] \in Numerals
    THEN Ok(IF s[1] = "7" THEN 7 ELSE 9)
    ELSE Err("ChecksumParsing", NoneVal)

\* DateTime::to_rfc2822 and DateTime::parse_from_rfc2822 of the one instant t1.
to_rfc2822(t) == <<"Sun, 1 Nov 2026 18", ":", "00", ":", "00 +0000">>
parse_from_rfc2822(s) == IF s = to_rfc2822("t1") THEN Ok("t1") ELSE Err("ParseError", NoneVal)

\* The help block at the end of render_lines.
HelpLines ==
    << Comment(<<"Reference", ":">>),
       Comment(<<"keep <target> = keep the target path as it is">>),
       Comment(<<"delete <target> = delete the target path">>),
       Comment(<<"symlink <target> ", "[", "->", " <src>", "]", " = Replace target with a symlink">>),
       Comment(<<".       If 'src' is specified, it can either be an absolute or">>),
       Comment(<<".       relative (to 'target'). Else one of the duplicates marked">>),
       Comment(<<".       as 'keep' will be considered. If 'src' is not specified,">>),
       Comment(<<".       a relative symlink will be created.">>),
       Comment(<<>>),
       Comment(<<"This section is a comment and will be ignored by the tool">>) >>

\* The lines of one group: its checksum, its entries, a blank.
RECURSIVE EntryLines(_, _)
EntryLines(filepaths, rootdir) ==
    IF filepaths = <<>> THEN <<>>
    ELSE <<Line_pathinfo(Head(filepaths), rootdir)>> \o EntryLines(Tail(filepaths), rootdir)

RECURSIVE GroupLines(_, _)
GroupLines(groups, rootdir) ==
    IF groups = <<>> THEN <<>>
    ELSE <<[status |-> "ok", line |-> ChecksumLine(Checksum_display(Head(groups).hash))]>>
            \o EntryLines(Head(groups).filepaths, rootdir)
            \o <<[status |-> "ok", line |-> Blank]>>
            \o GroupLines(Tail(groups), rootdir)

Rendered(glines, head, tail) ==
    IF \E i \in 1..Len(glines) : glines[i].status = "panic"
    THEN [status |-> "panic"]
    ELSE [status |-> "ok",
          lines |-> head \o [i \in 1..Len(glines) |-> glines[i].line] \o tail]

\* textformat::render_lines
render_lines(f, wd, s) ==
    IF s.duplicates = <<>> THEN [status |-> "ok", lines |-> <<>>]
    ELSE Rendered(GroupLines(sorted_groups(f, wd, s.duplicates), s.rootdir),
                  << MetaData(<<"Root Directory">>, display(s.rootdir)),
                     MetaData(<<"Generated at">>, to_rfc2822(s.generated_at)),
                     Blank >>,
                  HelpLines)

EncodeAll(r) ==
    IF r.status = "ok"
    THEN [status |-> "ok", lines |-> [i \in 1..Len(r.lines) |-> Line_encode(r.lines[i])]]
    ELSE r

\* textformat::render
render(f, wd, s) == EncodeAll(render_lines(f, wd, s))

\* What parse returns: a Snapshot, an AppError, or a panic of an unwrap.
ParseOk(s) == [status |-> "ok", snap |-> s]
ParseErr(k) == [status |-> "err", kind |-> k]
ParsePanic == [status |-> "panic"]

\* duplicates.get_mut(&group) / insert: the entry joins its group, a new
\* group goes to the end.
PushEntry(duplicates, group, filepath) ==
    IF \E i \in 1..Len(duplicates) : duplicates[i].hash = group
    THEN [i \in 1..Len(duplicates) |->
            IF duplicates[i].hash = group
            THEN [duplicates[i] EXCEPT !.filepaths = Append(@, filepath)]
            ELSE duplicates[i]]
    ELSE Append(duplicates, [hash |-> group, filepaths |-> <<filepath>>])

\* FileOp::decode with the Option<&str> of the line
FileOp_source(extra) == IF extra.some THEN Some(PathBuf_from(extra.val)) ELSE NoneVal

\* The loop of textformat::parse from line i on, st = [rootdir, generated_at,
\* curr_group, duplicates].
RECURSIVE parse_from(_, _, _)

OnMetaData(str_lines, i, st, line, time) ==
    IF line.key = <<"Root Directory">>
    THEN parse_from(str_lines, i + 1, [st EXCEPT !.rootdir = Some(PathBuf_from(line.val))])
    ELSE IF line.key = <<"Generated at">>
    THEN IF time.ok
         THEN parse_from(str_lines, i + 1, [st EXCEPT !.generated_at = Some(time.val)])
         ELSE ParsePanic
    ELSE parse_from(str_lines, i + 1, st)

OnChecksum(str_lines, i, st, parsed_checksum) ==
    IF parsed_checksum.ok
    THEN parse_from(str_lines, i + 1, [st EXCEPT !.curr_group = Some(parsed_checksum.val)])
    ELSE ParseErr("SnapshotParsing")

AddEntry(str_lines, i, st, line, abs_path) ==
    IF ~abs_path.ok THEN ParseErr("Fs")
    ELSE parse_from(str_lines, i + 1,
             [st EXCEPT !.duplicates =
                 PushEntry(@, st.curr_group.val,
                           FilePath(abs_path.val, line.op, FileOp_source(line.extra)))])

OnPathInfo(str_lines, i, st, line) ==
    IF ~st.curr_group.some THEN ParsePanic
    ELSE IF ~st.rootdir.some THEN ParseErr("SnapshotParsing")
    ELSE AddEntry(str_lines, i, st, line,
                  normalize_path(PathBuf_from(line.path), FALSE, st.rootdir.val))

OnLine(str_lines, i, st, line) ==
    IF ~line.ok THEN ParseErr("SnapshotParsing")
    ELSE IF line.val.kind \in {"Comment", "Blank"} THEN parse_from(str_lines, i + 1, st)
    ELSE IF line.val.kind = "MetaData"
    THEN OnMetaData(str_lines, i, st, line.val, parse_from_rfc2822(line.val.val))
    ELSE IF line.val.kind = "Checksum"
    THEN OnChecksum(str_lines, i, st, Checksum_parse(line.val.hash))
    ELSE OnPathInfo(str_lines, i, st, line.val)

parse_from(str_lines, i, st) ==
    IF i <= Len(str_lines) THEN OnLine(str_lines, i, st, Line_decode(str_lines[i]))
    ELSE IF ~st.rootdir.some \/ ~st.generated_at.some THEN ParseErr("SnapshotParsing")
    ELSE ParseOk([rootdir |-> st.rootdir.val, generated_at |-> st.generated_at.val,
                  duplicates |-> st.duplicates])

\* textformat::parse
parse(str_lines) ==
    parse_from(str_lines, 1,
               [rootdir |-> NoneVal, generated_at |-> NoneVal, curr_group |-> NoneVal,
                duplicates |-> <<>>])

(***************************************************************************)
(* Inputs of the text format: the snapshots that are rendered and read     *)
(* back, and the line sequences that are read.                             *)
(***************************************************************************)
MaxLines == 4        \* lines of an input file
MaxGroup == 2        \* entries in a group of a rendered snapshot

TextPaths ==
    { AbsPath(<<"r", "a", "1">>), AbsPath(<<"r", "b", "1">>), AbsPath(<<"r", "x->y">>) }

TextEntries ==
    {FilePath(p, o, NoneVal) : p \in TextPaths, o \in {"keep", "delete", "symlink"}}
        \cup {FilePath(p, "symlink", Some(x)) : p \in TextPaths, x \in ExplicitSources}

TextGroups == UNION {[1..k -> TextEntries] : k \in 1..MaxGroup}

SecondGroup == <<FilePath(P2, "keep", NoneVal), FilePath(P3, "delete", NoneVal)>>

TextSnapshots ==
    {[rootdir |-> RootDir, generated_at |-> "t1", duplicates |-> d] :
        d \in {<<>>}
            \cup {<<[hash |-> 7, filepaths |-> g]>> : g \in TextGroups}
            \cup {<<[hash |-> 7, filepaths |-> g], [hash |-> 9, filepaths |-> SecondGroup]>> :
                    g \in TextGroups}}

InputLines ==
    { <<"#", "!", " ", "Root Directory", ":", " ", "/", "r">>,
      <<"#", "!", " ", "Generated at", ":", " ">> \o to_rfc2822("t1"),
      <<"#", "!", " ", "Generated at", ":", " ", "yesterday">>,
      <<"[", "7", "]">>,
      <<"[", "x", "]">>,
      <<"keep", " ", "a", "/", "1">>,
      <<"symlink", " ", "b", "/", "1", " ", "->", " ", "/", "r", "/", "a", "/", "1">>,
      <<"delete", " ", "/", "o">>,
      <<"#", "x">>,
      <<"foo">> }

InputFiles == UNION {[1..k -> InputLines] : k \in 0..MaxLines}

\* render(&snapshot): the lines written to the output.
RenderWith(r) ==
    IF r.status = "ok"
    THEN lines' = r.lines /\ pc' = "parse" /\ UNCHANGED parsed
    ELSE parsed' = Some(ParsePanic) /\ pc' = "parsed" /\ UNCHANGED lines

Render ==
    /\ pc = "render"
    /\ RenderWith(render(fs, cwd, tsnap.val))
    /\ UNCHANGED <<fs, backup, cwd, cmd, snap, result, todo, outcome, exit, run,
                   hist, dom, callvars, scanvars, tsnap>>

\* textformat::parse(lines)
Parse ==
    /\ pc = "parse"
    /\ parsed' = Some(parse(lines))
    /\ pc' = "parsed"
    /\ UNCHANGED <<fs, backup, cwd, cmd, snap, result, todo, outcome, exit, run,
                   hist, dom, callvars, scanvars, tsnap, lines>>

InitText ==
    /\ \/ /\ tsnap \in {Some(s) : s \in TextSnapshots}
          /\ lines = <<>>
          /\ pc = "render"
       \/ /\ tsnap = NoneVal
          /\ lines \in InputFiles
          /\ pc = "parse"
    /\ parsed = NoneVal
    /\ fs = BaseFs
    /\ backup = {}
    /\ cwd = <<>>
    /\ cmd = [name |-> "none", dry_run |-> FALSE, allow_full_deletion |-> FALSE]
    /\ snap = NoSnapshot
    /\ result = NoResult
    /\ todo = <<>>
    /\ outcome = ""
    /\ exit = -1
    /\ run = 1
    /\ hist = <<>>
    /\ dom = "text"
    /\ args = NoneVal
    /\ ret = NoneVal
    /\ dirqueue = <<>>
    /\ reads = <<>>
    /\ quick = FALSE
    /\ skip_deduped = FALSE
    /\ found = NoneVal
    /\ excludes = NoneVal
    /\ paths = <<>>
    /\ dups = <<>>

NextText == Render \/ Parse

SpecText == InitText /\ [][NextText]_vars

(***************************************************************************)
(* textformat::parse on files that name the root more than once: the       *)
(* lines are drawn from two `Root Directory` lines, a `Generated at` line, *)
(* a checksum line and an entry with a relative path.                      *)
(***************************************************************************)
MaxMetaLines == 5    \* lines of such a file

MetaLines ==
    { <<"#", "!", " ", "Root Directory", ":", " ", "/", "r", "/", "a">>,
      <<"#", "!", " ", "Root Directory", ":", " ", "/", "r", "/", "b">>,
      <<"#", "!", " ", "Generated at", ":", " ">> \o to_rfc2822("t1"),
      <<"[", "7", "]">>,
      <<"keep", " ", "1">> }

MetaFiles == UNION {[1..k -> MetaLines] : k \in 0..MaxMetaLines}

InitMeta ==
    /\ tsnap = NoneVal
    /\ lines \in MetaFiles
    /\ pc = "parse"
    /\ parsed = NoneVal
    /\ fs = BaseFs
    /\ backup = {}
    /\ cwd = <<>>
    /\ cmd = [name |-> "none", dry_run |-> FALSE, allow_full_deletion |-> FALSE]
    /\ snap = NoSnapshot
    /\ result = NoResult
    /\ todo = <<>>
    /\ outcome = ""
    /\ exit = -1
    /\ run = 1
    /\ hist = <<>>
    /\ dom = "metadata"
    /\ args = NoneVal
    /\ ret = NoneVal
    /\ dirqueue = <<>>
    /\ reads = <<>>
    /\ quick = FALSE
    /\ skip_deduped = FALSE
    /\ found = NoneVal
    /\ excludes = NoneVal
    /\ paths = <<>>
    /\ dups = <<>>

SpecMeta == InitMeta /\ [][Parse]_vars

(***************************************************************************)
(* Line::decode on one line (textformat.rs): the line is drawn from the    *)
(* strings of at most MaxTokens tokens that a comment or metadata line is  *)
(* made of, and from the symlink lines with as many tokens after the       *)
(* keyword.                                                                *)
(***************************************************************************)
MaxTokens == 6

MetaTokens == {"#", "!", " ", ":", "k"}

LinkTokens == {"a", " ", "->"}

DecodeInputs ==
    UNION {[1..n -> MetaTokens] : n \in 0..MaxTokens}
        \cup {<<"symlink", " ">> \o b :
                 b \in UNION {[1..n -> LinkTokens] : n \in 0..MaxTokens}}

\* Line::decode(&line)
Decode ==
    /\ pc = "decode"
    /\ parsed' = Some(Line_decode(lines[1]))
    /\ pc' = "decoded"
    /\ UNCHANGED <<fs, backup, cwd, cmd, snap, result, todo, outcome, exit, run,
                   hist, dom, callvars, scanvars, tsnap, lines>>

InitDecode ==
    /\ \E l \in DecodeInputs : lines = <<l>>
    /\ pc = "decode"
    /\ tsnap = NoneVal
    /\ parsed = NoneVal
    /\ fs = BaseFs
    /\ backup = {}
    /\ cwd = <<>>
    /\ cmd = [name |-> "none", dry_run |-> FALSE, allow_full_deletion |-> FALSE]
    /\ snap = NoSnapshot
    /\ result = NoResult
    /\ todo = <<>>
    /\ outcome = ""
    /\ exit = -1
    /\ run = 1
    /\ hist = <<>>
    /\ dom = "decode"
    /\ args = NoneVal
    /\ ret = NoneVal
    /\ dirqueue = <<>>
    /\ reads = <<>>
    /\ quick = FALSE
    /\ skip_deduped = FALSE
    /\ found = NoneVal
    /\ excludes = NoneVal
    /\ paths = <<>>
    /\ dups = <<>>

NextDecode == Decode

SpecDecode == InitDecode /\ [][NextDecode]_vars

(***************************************************************************)
(* Library functions called on their own: `args` holds the arguments of    *)
(* the one call of the run and `ret` what it returned.                     *)
(***************************************************************************)
InitCall(d, A) ==
    /\ dom = d
    /\ args \in {Some(a) : a \in A}
    /\ ret = NoneVal
    /\ dirqueue = <<>>
    /\ reads = <<>>
    /\ pc = "call"
    /\ fs = BaseFs
    /\ backup = {}
    /\ cwd = <<>>
    /\ cmd = [name |-> "none", dry_run |-> FALSE, allow_full_deletion |-> FALSE]
    /\ snap = NoSnapshot
    /\ result = NoResult
    /\ todo = <<>>
    /\ outcome = ""
    /\ exit = -1
    /\ run = 1
    /\ hist = <<>>
    /\ quick = FALSE
    /\ skip_deduped = FALSE
    /\ found = NoneVal
    /\ excludes = NoneVal
    /\ paths = <<>>
    /\ dups = <<>>
    /\ tsnap = NoneVal
    /\ lines = <<>>
    /\ parsed = NoneVal

\* What a call leaves alone.
Returned(v) ==
    /\ ret' = Some(v)
    /\ pc' = "returned"
    /\ UNCHANGED <<fs, backup, cwd, cmd, snap, result, todo, outcome, exit, run,
                   hist, dom, args, dirqueue, reads, scanvars, textvars>>

\* The paths of at most MaxComps components handed to normalize_path, and the
\* base directories.
MaxComps == 3

CompNames == {"r", "a", "..", "o"}

SomePaths ==
    {[abs |-> b, comps |-> c] :
        b \in BOOLEAN, c \in UNION {[1..n -> CompNames] : n \in 0..MaxComps}}

NormalizeArgs ==
    {[path |-> p, must_be_relative |-> m, base_dir |-> b] :
        p \in SomePaths, m \in BOOLEAN, b \in {RootDir, AbsPath(<<"r", "a">>)}}

\* normalize_path(&path, must_be_relative, &base_dir)
Normalize ==
    /\ pc = "call"
    /\ Returned(normalize_path(args.val.path, args.val.must_be_relative,
                               args.val.base_dir))

InitNormalize == InitCall("normalize", NormalizeArgs)
SpecNormalize == InitNormalize /\ [][Normalize]_vars

\* render on one entry: Line::pathinfo of a FilePath under a root, encoded.
\* The entries are those of three paths (one of them outside the root) with
\* every operation and every source of at most MaxComps components.
RenderArgs ==
    {[filepath |-> FilePath(p, o.op, o.source), rootdir |-> RootDir] :
        p \in {P1, P2, AbsPath(<<"o">>)},
        o \in {[op |-> "keep", source |-> NoneVal], [op |-> "delete", source |-> NoneVal],
               [op |-> "symlink", source |-> NoneVal]}
              \cup {[op |-> "symlink", source |-> Some(x)] : x \in SomePaths}}

RenderEntry ==
    /\ pc = "call"
    /\ Returned(EncodeAll(Rendered(<<Line_pathinfo(args.val.filepath, args.val.rootdir)>>,
                                   <<>>, <<>>)))

InitRender == InitCall("render", RenderArgs)
SpecRender == InitRender /\ [][RenderEntry]_vars

\* snapshot::find_keeper on the lists of at most MaxKeeper entries over two
\* paths, with or without a source.
MaxKeeper == 3

KeeperArgs == UNION {[1..n -> EntriesOver({P1, P2})] : n \in 0..MaxKeeper}

FindKeeper ==
    /\ pc = "call"
    /\ Returned(snapshot_find_keeper(args.val))

InitKeeper == InitCall("keeper", KeeperArgs)
SpecKeeper == InitKeeper /\ [][FindKeeper]_vars

(***************************************************************************)
(* Properties of validate and apply.                                       *)
(***************************************************************************)
\* The entries of the one group of the snapshot that was read.
Entries == IF snap.duplicates = <<>> THEN <<>> ELSE snap.duplicates[1].filepaths

\* validate has returned in the current invocation.
Validated == result # NoResult

\* C1 (as claimed): after an apply that completed, validating the same
\* snapshot again succeeds and leaves no pending action.
C1_Convergence ==
    (run > 1 /\ Validated)
        => (result.ok /\ pending_actions(result.val, FALSE) = <<>>)

\* C2 (as claimed): on files that are all in place, a group of two or more
\* entries that are all 'delete' fails with OpNotAllowed without the flag and
\* yields one Delete action per entry with it; a group with no 'keep' that is
\* not all 'delete' fails with OpNotAllowed either way.
C2_FullDeletionGate ==
    (run = 1 /\ Validated /\ fs = BaseFs /\ Len(Entries) >= 2
          /\ ~validation_find_keeper(Entries).some)
        => IF are_all_deletions(Entries) /\ cmd.allow_full_deletion
           THEN /\ result.ok
                /\ Len(result.val) = Len(Entries)
                /\ \A i \in 1..Len(Entries) :
                      result.val[i].kind = "Delete" /\ result.val[i].path = Entries[i].path
           ELSE ~result.ok /\ result.err.kind = "OpNotAllowed"

\* C4 (as claimed): every Symlink or Delete action validate returns has a
\* path that lies inside the root directory, and no file outside the root is
\* ever removed or replaced.
C4_RootConfinement ==
    /\ (Validated /\ result.ok) =>
          \A i \in 1..Len(result.val) :
              result.val[i].kind \in {"Symlink", "Delete"} =>
                  IsPrefix(snap.rootdir.comps,
                           Stat(fs, cwd, result.val[i].path, FALSE).at)
    /\ \A s \in Slots : ~IsPrefix(RootDir.comps, s) => fs[s] = BaseFs[s]

\* C7 (as claimed): the source of every implicit symlink is the first 'keep'
\* entry of the group sorted by path.
C7_DeterministicKeeper ==
    (Validated /\ result.ok) =>
        \A i \in 1..Len(result.val) :
            (result.val[i].kind = "Symlink" /\ ~result.val[i].is_explicit) =>
                result.val[i].source = Some(snapshot_find_keeper(Entries).val.path)

\* C8 (as claimed): the process ends with status 0 only if the command
\* succeeded (or the user declined at the prompt); every error that
\* Cli::execute returns ends it with a non-zero status.
C8_ExitStatus ==
    (pc = "exited" /\ exit = 0) => outcome \in {"Ok", "Aborted"}

\* The content behind the path is readable and its fingerprint is not `hash`.
IsStale(h, hash) == h.ok /\ h.val # hash

StalePath(p) == IsStale(Checksum_of_file(fs, cwd, p), snap.duplicates[1].hash)

FreshPath(p) ==
    Checksum_of_file(fs, cwd, p) = Ok(snap.duplicates[1].hash) /\ ~is_symlink(fs, cwd, p)

\* The file an explicit source of entry e names (a relative one is taken from
\* the directory of the entry's path).
SourceFile(e) ==
    IF e.source.val.abs THEN e.source.val
    ELSE path_join(path_parent(e.path).val, e.source.val)

StaleEntries == {i \in 1..Len(Entries) : StalePath(Entries[i].path)}
StaleSources ==
    {i \in 1..Len(Entries) : Entries[i].source.some /\ StalePath(SourceFile(Entries[i]))}

\* validate has returned, on the files as they were when the program started
\* (a link is never stale: it was a regular file when the snapshot was made).
ValidatedAtStart == run = 1 /\ Validated /\ fs \in FsOf(dom) /\ backup = {}

FingerprintGroups ==
    group_dups_by_xxh3(fs, cwd,
        possible_duplicates(fs, cwd, valid_paths(fs, cwd, RootDir, paths))).val

\* C3 (as claimed): with quick = true every fingerprint group is returned
\* unconfirmed; with quick = false exactly the fingerprint groups whose files
\* have one sha256 digest are returned.
C3_QuickFlag ==
    pc = "scanned" =>
        IF quick THEN dups = FingerprintGroups
        ELSE /\ DOMAIN dups \subseteq DOMAIN FingerprintGroups
             /\ \A k \in DOMAIN FingerprintGroups :
                   k \in DOMAIN dups
                       <=> Cardinality(sha256hashes(fs, cwd, FingerprintGroups[k])) = 1

\* C10 (as claimed): every group scan returns has at least two paths, all
\* emitted by the traversal and valid, all of one size and of the fingerprint
\* that is the group's key, and of one sha256 digest when quick = false.
C10_ScannerOutput ==
    pc = "scanned" =>
        \A k \in DOMAIN dups :
            /\ Len(dups[k]) >= 2
            /\ \A i \in 1..Len(dups[k]) :
                  /\ \E j \in 1..Len(paths) : paths[j] = dups[k][i]
                  /\ is_path_valid(fs, cwd, RootDir, dups[k][i])
                  /\ metadata_len_of(fs, cwd, dups[k][i])
                        = metadata_len_of(fs, cwd, dups[k][1])
                  /\ Checksum_of_file(fs, cwd, dups[k][i]) = Ok(k)
            /\ ~quick => Cardinality(sha256hashes(fs, cwd, dups[k])) = 1

(***************************************************************************)
(* Properties of the text format.                                          *)
(***************************************************************************)
\* The (path, op, source string) of each entry of a group, in order.
EntryTriples(filepaths) ==
    [i \in 1..Len(filepaths) |->
        <<filepaths[i].path, filepaths[i].op,
          IF filepaths[i].source.some THEN Some(display(filepaths[i].source.val))
          ELSE NoneVal>>]

GroupsOf(s) ==
    {<<s.duplicates[i].hash, EntryTriples(s.duplicates[i].filepaths)>> :
        i \in 1..Len(s.duplicates)}

\* C5 (as claimed): parsing what render wrote for a snapshot succeeds and
\* gives the same root, the same checksums and, for each, the same ordered
\* list of (absolute path, op, source string).
C5_RoundTrip ==
    (pc = "parsed" /\ tsnap.some) =>
        /\ parsed.val.status = "ok"
        /\ parsed.val.snap.rootdir = tsnap.val.rootdir
        /\ GroupsOf(parsed.val.snap) = GroupsOf(tsnap.val)

\* What the input lines decode to, and the defects the claim lists.
Decoded == [i \in 1..Len(lines) |-> Line_decode(lines[i])]
IsMetaData(i, key) ==
    Decoded[i].ok /\ Decoded[i].val.kind = "MetaData" /\ Decoded[i].val.key = <<key>>
IsKind(i, kind) == Decoded[i].ok /\ Decoded[i].val.kind = kind

LacksRoot == ~\E i \in 1..Len(lines) : IsMetaData(i, "Root Directory")
LacksTime == ~\E i \in 1..Len(lines) : IsMetaData(i, "Generated at")
InvalidTime ==
    \E i \in 1..Len(lines) :
        IsMetaData(i, "Generated at") /\ ~parse_from_rfc2822(Decoded[i].val.val).ok
PathInfoBeforeChecksum ==
    \E i \in 1..Len(lines) :
        IsKind(i, "PathInfo") /\ ~\E j \in 1..(i - 1) : IsKind(j, "Checksum")
PathInfoBeforeRoot ==
    \E i \in 1..Len(lines) :
        IsKind(i, "PathInfo") /\ ~\E j \in 1..(i - 1) : IsMetaData(j, "Root Directory")
UndecodableLine == \E i \in 1..Len(lines) : ~Decoded[i].ok

\* C9 (as claimed): an input with any of these defects makes parse return
\* Err(SnapshotParsing); it neither panics nor returns a Snapshot.
C9_ParseFailureIsError ==
    (pc = "parsed" /\ ~tsnap.some
        /\ (LacksRoot \/ LacksTime \/ InvalidTime \/ PathInfoBeforeChecksum
                \/ PathInfoBeforeRoot \/ UndecodableLine))
        => parsed.val = ParseErr("SnapshotParsing")


(***************************************************************************)
(* Properties of the validation of one entry.                              *)
(***************************************************************************)
\* Entry i is the first of a group that has a 'keep' entry, so that it is the
\* first entry validate_path is called on.
FirstValidated(i) == i = 1 /\ Len(Entries) > 1 /\ validation_find_keeper(Entries).some

\* Entry i is a 'symlink' entry whose path names nothing on disk.
SymlinkOnMissing(i) ==
    Entries[i].op = "symlink" /\ ~exists(fs, cwd, Entries[i].path)

\* C11 (as claimed): a 'symlink' entry, with or without an explicit source,
\* whose path does not exist on disk makes validate fail with OpNotPossible.
C11_SymlinkOnMissingTarget ==
    (ValidatedAtStart /\ \E i \in 1..Len(Entries) :
                             FirstValidated(i) /\ SymlinkOnMissing(i))
        => (~result.ok /\ result.err.kind = "OpNotPossible")

\* The content behind path p is readable and has the group's checksum.
MatchesHash(p) == Checksum_of_file(fs, cwd, p) = Ok(snap.duplicates[1].hash)

\* Entry i is a 'delete' entry whose path names nothing on disk.
DeleteOfAbsent(i) == Entries[i].op = "delete" /\ ~exists(fs, cwd, Entries[i].path)

\* Entry i is a 'delete' entry whose path exists with the group's content.
DeleteOfCurrent(i) ==
    Entries[i].op = "delete" /\ exists(fs, cwd, Entries[i].path)
        /\ MatchesHash(Entries[i].path)

\* Entry i is a 'keep' entry of a regular file with the group's content.
KeepOfCurrent(i) == Entries[i].op = "keep" /\ FreshPath(Entries[i].path)

\* C12: validate does not fail on a 'delete' entry whose path does not exist
\* (a group of two or more entries, current 'keep' entries and 'delete'
\* entries that are absent or current, validates), and the action it returns for a 'delete' entry is
\* Delete with is_no_op = true when the path does not exist and with
\* is_no_op = false when it exists with a matching fingerprint.
C12_DeleteOfAbsentPath ==
    ValidatedAtStart =>
        /\ ( /\ Len(Entries) > 1
             /\ validation_find_keeper(Entries).some
             /\ \A i \in 1..Len(Entries) :
                   DeleteOfAbsent(i) \/ DeleteOfCurrent(i) \/ KeepOfCurrent(i) )
              => result.ok
        /\ result.ok =>
              \A i \in 1..Len(Entries) :
                  /\ DeleteOfAbsent(i) => result.val[i] = ActDelete(Entries[i].path, TRUE)
                  /\ DeleteOfCurrent(i) => result.val[i] = ActDelete(Entries[i].path, FALSE)

\* C12 witness: validate has succeeded on a group with a 'delete' entry whose
\* path is absent and one whose path is present, with a no-op Delete for the
\* first and a pending Delete for the second.
C12_Witness ==
    /\ ValidatedAtStart /\ result.ok
    /\ \E i, j \in 1..Len(Entries) :
          /\ DeleteOfAbsent(i) /\ result.val[i].kind = "Delete" /\ result.val[i].is_no_op
          /\ DeleteOfCurrent(j) /\ result.val[j].kind = "Delete" /\ ~result.val[j].is_no_op

\* Entry i is a 'symlink' entry with an explicit source whose own content has
\* the group's checksum while the content of its source is readable and has
\* another one.
WrongExplicitSource(i) ==
    /\ Entries[i].op = "symlink" /\ Entries[i].source.some
    /\ MatchesHash(Entries[i].path)
    /\ StalePath(SourceFile(Entries[i]))

\* C13: a 'symlink' entry whose content matches the group checksum and whose
\* explicit source (a relative one resolved against the directory of the
\* entry's path) has content of another fingerprint makes validate fail, so
\* that no action is returned for it; the error is OpNotPossible naming the
\* entry when the entry is the first one validated.
C13_WrongExplicitSource ==
    ValidatedAtStart =>
        \A i \in 1..Len(Entries) :
            WrongExplicitSource(i) =>
                /\ ~result.ok
                /\ FirstValidated(i) => result = Err("OpNotPossible", Some(Entries[i].path))

\* C13 witness: validate has failed with OpNotPossible on a 'symlink' entry
\* whose relative explicit source names, from the entry's directory, a file
\* of another content.
C13_Witness ==
    /\ ValidatedAtStart
    /\ \E i \in 1..Len(Entries) :
          /\ WrongExplicitSource(i) /\ ~Entries[i].source.val.abs
          /\ result = Err("OpNotPossible", Some(Entries[i].path))

\* The source entry i is to link to: its explicit source, or the keeper.
IntendedSource(i) ==
    IF Entries[i].source.some THEN Entries[i].source.val
    ELSE validation_find_keeper(Entries).val.path

\* The link stored at the path of entry i.
StoredLink(i) == fs[Stat(fs, cwd, Entries[i].path, FALSE).at].target

\* Entry i is a 'symlink' entry of a group with a 'keep' entry, its path is a
\* link on disk, and validation gets as far as comparing that link: the content behind the path and behind
\* an explicit source has the group's checksum, and the intended source is
\* not itself a link.
ExistingLinkEntry(i) ==
    /\ Entries[i].op = "symlink"
    /\ validation_find_keeper(Entries).some
    /\ is_symlink(fs, cwd, Entries[i].path)
    /\ MatchesHash(Entries[i].path)
    /\ Entries[i].source.some => MatchesHash(SourceFile(Entries[i]))
    /\ ~is_symlink(fs, cwd, IntendedSource(i))

\* The stored link of entry i is the intended source: as written when the
\* source is explicit or both are absolute, and once the stored link is
\* resolved from the directory of the entry's path when the intended source
\* is absolute and the stored link relative.
LinkMatches(i) ==
    IF Entries[i].source.some \/ (IntendedSource(i).abs /\ StoredLink(i).abs)
    THEN IntendedSource(i) = StoredLink(i)
    ELSE /\ IntendedSource(i).abs
         /\ canonicalize(fs, cwd,
                path_join(path_parent(Entries[i].path).val, StoredLink(i)))
                = Ok(IntendedSource(i))

\* The links and relative sources the comparison is tried on.
SomeLinks == {P1, P3, RelPath(<<"1">>), RelPath(<<"..", "a", "1">>)}
SomeRelative == {x \in SomeLinks : ~x.abs}

\* C14: for a 'symlink' entry whose path is already a link, a stored link
\* that matches the intended source yields Symlink with is_no_op = true (a
\* group of current 'keep' entries and of such entries validates and returns
\* these actions), and one that does not match makes validate fail, with
\* OpNotAllowed naming the entry when it is the first one validated; an
\* implicit relative intended source is an OpNotAllowed error.
C14_ExistingLinkComparison ==
    /\ ValidatedAtStart =>
          /\ ( /\ Len(Entries) > 1
               /\ validation_find_keeper(Entries).some
               /\ \A i \in 1..Len(Entries) :
                     KeepOfCurrent(i) \/ (ExistingLinkEntry(i) /\ LinkMatches(i)) )
                => result.ok
          /\ \A i \in 1..Len(Entries) :
                ExistingLinkEntry(i) =>
                    /\ result.ok =>
                          /\ LinkMatches(i)
                          /\ result.val[i] = ActSymlink(Entries[i].path, IntendedSource(i),
                                                        Entries[i].source.some, TRUE)
                    /\ (FirstValidated(i) /\ ~LinkMatches(i)) =>
                          result = Err("OpNotAllowed", Some(Entries[i].path))
    /\ \A intended \in SomeRelative, actual \in SomeLinks :
          LET v == verify_symlink_source_path(fs, cwd, intended, actual, P2, FALSE)
          IN  ~v.ok /\ v.err.kind = "OpNotAllowed"

\* C14 witness: validate has returned a no-op Symlink for an entry without
\* explicit source whose path holds a relative link that resolves to the
\* keeper.
C14_Witness ==
    /\ ValidatedAtStart /\ result.ok
    /\ \E i \in 1..Len(Entries) :
          /\ ExistingLinkEntry(i) /\ ~Entries[i].source.some /\ ~StoredLink(i).abs
          /\ result.val[i].kind = "Symlink" /\ result.val[i].is_no_op


(***************************************************************************)
(* Properties of Line::decode.                                             *)
(***************************************************************************)
\* The line handed to Line::decode, without the blanks around it, and what
\* Line::decode returned for it.
TheLine == trim(lines[1])
TheDecoded == parsed.val

\* The line starts with `#!`.
StartsMetaData == Len(TheLine) >= 2 /\ TheLine[1] = "#" /\ TheLine[2] = "!"

\* What follows the `#!`, and the place of its first colon (0: there is none).
AfterBang == SubSeq(TheLine, 3, Len(TheLine))
FirstColon == Find(AfterBang, ":")

\* C15: a line starting with `#!` decodes to MetaData or fails with
\* SnapshotParsing, never to a Comment; it decodes to MetaData only if a colon
\* follows a non-empty key and a non-empty value follows the colon, the key
\* being the text before the colon and the value the text after it (without
\* the blanks in front); `#!` alone, `#!` without a colon and `#! key:` with
\* no value fail.
C15_MetadataLineDecoding ==
    (pc = "decoded" /\ StartsMetaData) =>
        /\ ~TheDecoded.ok => TheDecoded.err.kind = "SnapshotParsing"
        /\ TheDecoded.ok =>
              /\ TheDecoded.val.kind = "MetaData"
              /\ TheDecoded.val.key # <<>> /\ TheDecoded.val.val # <<>>
              /\ FirstColon > 1 /\ FirstColon < Len(AfterBang)
              /\ \E n \in 0..Len(AfterBang) :
                    Repeat(" ", n) \o TheDecoded.val.key
                        = SubSeq(AfterBang, 1, FirstColon - 1)
              /\ TheDecoded.val.val
                    = trim_start(SubSeq(AfterBang, FirstColon + 1, Len(AfterBang)))
        /\ (AfterBang = <<>> \/ FirstColon = 0 \/ FirstColon = Len(AfterBang)
                \/ FirstColon = 1)
              => ~TheDecoded.ok

\* C15 witness: `#! k:`, a key without a value, was decoded and the result
\* is Err(SnapshotParsing).
C15_Witness ==
    /\ pc = "decoded"
    /\ lines[1] = <<"#", "!", " ", "k", ":">>
    /\ TheDecoded = Err("SnapshotParsing", NoneVal)

\* The line is a symlink line; what follows its keyword.
IsSymlinkLine == Len(TheLine) >= 3 /\ TheLine[1] = "symlink" /\ TheLine[2] = " "
Remainder == SubSeq(TheLine, 3, Len(TheLine))

\* The arrow at place i of the remainder has no blank on either side.
BareArrow(i) ==
    /\ Remainder[i] = "->"
    /\ i > 1 /\ Remainder[i - 1] # " "
    /\ i < Len(Remainder) /\ Remainder[i + 1] # " "

\* C16 (as claimed): a symlink line decodes to a PathInfo with the target
\* alone or with target and source, or fails with SnapshotParsing; a
\* remainder whose arrows all stand without surrounding blanks is not split:
\* it is the target (without the blanks around it), and there is no source.
C16_SymlinkLineDecoding ==
    (pc = "decoded" /\ IsSymlinkLine) =>
        /\ ~TheDecoded.ok => TheDecoded.err.kind = "SnapshotParsing"
        /\ TheDecoded.ok =>
              TheDecoded.val.kind = "PathInfo" /\ TheDecoded.val.path # <<>>
        /\ (\A i \in 1..Len(Remainder) : Remainder[i] = "->" => BareArrow(i))
              => TheDecoded
                    = Ok(PathInfo(trim(Remainder), "symlink", Some(<<"->">>), NoneVal))


(***************************************************************************)
(* Properties of the executor.                                             *)
(***************************************************************************)
\* The places in `actions` of the Symlink and Delete actions that are to be
\* performed: all of them with include_no_op, else those that are no no-op.
KeptPlaces(actions, include_no_op) ==
    {i \in 1..Len(actions) :
        /\ actions[i].kind \in {"Symlink", "Delete"}
        /\ include_no_op \/ ~actions[i].is_no_op}

\* The k-th smallest member of a set of numbers.
NthOf(S, k) == CHOOSE i \in S : Cardinality({j \in S : j < i}) = k - 1

\* `pending` holds exactly the kept actions of `actions`, in their order.
IsFiltered(pending, actions, include_no_op) ==
    /\ Len(pending) = Cardinality(KeptPlaces(actions, include_no_op))
    /\ \A k \in 1..Len(pending) :
          pending[k] = actions[NthOf(KeptPlaces(actions, include_no_op), k)]

\* C17: the actions executor::execute starts on are, in their original
\* order, exactly the Symlink and Delete actions validate returned for which
\* dry_run holds or is_no_op does not; a Keep action is never among them.
C17_PendingActionFilter ==
    [][ (pc # "execute" /\ pc' = "execute")
            => /\ IsFiltered(todo', result'.val, cmd'.dry_run)
               /\ \A k \in 1..Len(todo') : todo'[k].kind # "Keep" ]_vars

\* C17 witness: a real run is about to perform a pending action, and
\* validate had returned a no-op action too, which is not among the pending.
C17_Witness ==
    /\ pc = "execute" /\ ~cmd.dry_run /\ fs \in FsOf(dom) /\ backup = {}
    /\ Len(todo) = 1
    /\ \E i \in 1..Len(result.val) :
          result.val[i].kind # "Keep" /\ result.val[i].is_no_op

\* C18: snapshot validation, whether it succeeds or fails, and every step of
\* an execute with dry_run = true leave the files and the backup directory
\* as they are.
C18_ReadOnlyPhases ==
    [][ (pc = "validate" \/ (pc = "execute" /\ cmd.dry_run))
            => (fs' = fs /\ backup' = backup) ]_vars

\* C18 witness: a dry run has gone through actions that were pending, and
\* files and backup directory are those the program was started on.
C18_Witness ==
    /\ cmd.dry_run /\ result.ok
    /\ pc = "exited" /\ outcome = "Ok"
    /\ \E i \in 1..Len(result.val) : result.val[i].kind # "Keep" /\ ~result.val[i].is_no_op
    /\ fs \in FsOf(dom) /\ backup = {}

\* The source of Symlink action a as replace_with_symlink writes it into the
\* link.
NormalizedSource(a) == normalize_symlink_src_path(a.path, a.source.val, a.is_explicit)

\* The file a link of content r at the path of action a leads to.
ResolvedFrom(a, r) == canonicalize(fs, cwd, path_join(path_parent(a.path).val, r))

\* C19 (as claimed): for every Symlink action validate returns whose
\* normalized source is a relative path, that path, joined to the directory
\* of the target and resolved, is the path of the group's keeper.
C19_RelativeSourceIsKeeper ==
    (ValidatedAtStart /\ result.ok) =>
        \A i \in 1..Len(result.val) :
            ( /\ result.val[i].kind = "Symlink"
              /\ NormalizedSource(result.val[i]).ok
              /\ ~NormalizedSource(result.val[i]).val.abs )
                => ResolvedFrom(result.val[i], NormalizedSource(result.val[i]).val)
                      = Ok(snapshot_find_keeper(Entries).val.path)


(***************************************************************************)
(* Properties of find.                                                     *)
(***************************************************************************)
\* The paths of a scanned group are one regular file and links.
OneFileRestLinks(ps) == Cardinality({i \in 1..Len(ps) : ~is_symlink(fs, cwd, ps[i])}) = 1

\* The checksums of the groups find is to list, of those scan returned.
Listed == {k \in DOMAIN dups : ~(skip_deduped /\ OneFileRestLinks(dups[k]))}

\* The snapshot read by apply has one group of one 'keep' entry and otherwise
\* 'symlink' entries, which names every regular file under the root that has
\* the group's fingerprint.
EditedToKeepAndSymlinks ==
    /\ Len(Entries) >= 2
    /\ Cardinality({i \in 1..Len(Entries) : Entries[i].op = "keep"}) = 1
    /\ \A i \in 1..Len(Entries) : Entries[i].op \in {"keep", "symlink"}
    /\ \A s \in Slots :
          (IsPrefix(RootDir.comps, s) /\ fs[s].kind = "file"
                /\ xxh3_64(fs[s].content) = snap.duplicates[1].hash)
              => \E i \in 1..Len(Entries) : Entries[i].path = AbsPath(s)

\* C20: Snapshot::of_rootdir returns the groups of scan, each with the paths
\* scan gave it, except, with skip_deduped = true, exactly those of one Keep
\* entry (a regular file) and otherwise Symlink entries (links); with
\* skip_deduped = false it omits none.  After an apply that went through on a
\* group of one 'keep' and otherwise 'symlink' entries, find with
\* skip_deduped = true lists no group that holds a path of that group.
C20_SkipDedupedFilter ==
    (pc = "found" /\ found.val.ok) =>
        /\ {found.val.val.duplicates[j].hash : j \in 1..Len(found.val.val.duplicates)}
              = Listed
        /\ Len(found.val.val.duplicates) = Cardinality(Listed)
        /\ \A j \in 1..Len(found.val.val.duplicates) :
              LET g == found.val.val.duplicates[j] IN
              /\ Len(g.filepaths) = Len(dups[g.hash])
              /\ \A i \in 1..Len(g.filepaths) :
                    /\ g.filepaths[i].path = dups[g.hash][i]
                    /\ g.filepaths[i].op
                          = IF is_symlink(fs, cwd, g.filepaths[i].path)
                            THEN "symlink" ELSE "keep"
        /\ (outcome = "Ok" /\ skip_deduped /\ EditedToKeepAndSymlinks) =>
              \A j \in 1..Len(found.val.val.duplicates) :
                  \A i \in 1..Len(found.val.val.duplicates[j].filepaths) :
                      \A e \in 1..Len(Entries) :
                          found.val.val.duplicates[j].filepaths[i].path # Entries[e].path

\* C20 witness: after an apply of one 'keep' and two 'symlink' entries, scan
\* still returns the group of the kept file and the two links, and find with
\* skip_deduped = true lists no group.
C20_Witness ==
    /\ pc = "found" /\ outcome = "Ok" /\ skip_deduped /\ EditedToKeepAndSymlinks
    /\ Len(Entries) = 3
    /\ DOMAIN dups # {}
    /\ \A k \in DOMAIN dups : Len(dups[k]) = 3
    /\ found.val.ok /\ found.val.val.duplicates = <<>>


(***************************************************************************)
(* Properties of the path functions.                                       *)
(***************************************************************************)
\* The path handed to normalize_path lies under the base directory: the
\* components of the base directory are its first components.
UnderBase == args.val.path.abs /\ IsPrefix(args.val.base_dir.comps, args.val.path.comps)

\* C21: normalize_path returns an absolute path under base_dir (one that
\* begins with the components of base_dir) without that prefix when
\* must_be_relative and unchanged otherwise, fails with Fs for an absolute
\* path not under base_dir in both modes, and returns a relative path
\* unchanged when must_be_relative and appended to base_dir, its `..` kept,
\* otherwise.
C21_NormalizePath ==
    (dom = "normalize" /\ pc = "returned") =>
        LET p == args.val.path
            b == args.val.base_dir
        IN  IF p.abs
            THEN IF UnderBase
                 THEN IF args.val.must_be_relative
                      THEN /\ ret.val.ok /\ ~ret.val.val.abs
                           /\ b.comps \o ret.val.val.comps = p.comps
                      ELSE ret.val = Ok(p)
                 ELSE ~ret.val.ok /\ ret.val.err.kind = "Fs"
            ELSE IF args.val.must_be_relative
                 THEN ret.val = Ok(p)
                 ELSE ret.val = Ok(AbsPath(b.comps \o p.comps))

\* C21 witness: the relative path ../o was joined to /r and came back as
\* /r/../o.
C21_Witness ==
    /\ dom = "normalize" /\ pc = "returned"
    /\ args.val.path = RelPath(<<"..", "o">>) /\ ~args.val.must_be_relative
    /\ args.val.base_dir = RootDir
    /\ ret.val = Ok(AbsPath(<<"r", "..", "o">>))


(***************************************************************************)
(* Properties of the execution of actions.                                 *)
(***************************************************************************)
\* The copy take_backup leaves of what is behind slot s: its path relative
\* to the root with the bytes read through it.
BackupOf(s) ==
    [rel |-> SubSeq(s, Len(snap.rootdir.comps) + 1, Len(s)),
     content |-> file_contents_as_bytes(fs, cwd, AbsPath(s)).val]

\* The action a real run performs next, and the slot its path names.
Performing == pc = "execute" /\ ~cmd.dry_run /\ todo # <<>>
TargetSlot == Stat(fs, cwd, Head(todo).path, FALSE).at

\* C22: in a real run a step changes no path but that of its action, a path
\* is removed or replaced only with the bytes behind it copied to the backup
\* under its path relative to the root, a step that cannot take the backup
\* changes nothing, and after a step that succeeded on a pending action the
\* copy is in the backup and the path is gone (Delete) or is a link (Symlink).
C22_BackupPrecedesRemoval ==
    [][ Performing =>
          /\ \A s \in Slots :
                fs'[s] # fs[s] =>
                    /\ s = TargetSlot
                    /\ file_contents_as_bytes(fs, cwd, AbsPath(s)).ok
                    /\ BackupOf(s) \in backup'
          /\ ~file_contents_as_bytes(fs, cwd, Head(todo).path).ok => fs' = fs
          /\ (todo' = Tail(todo) /\ ~Head(todo).is_no_op) =>
                /\ BackupOf(TargetSlot) \in backup'
                /\ fs'[TargetSlot].kind
                      = IF Head(todo).kind = "Delete" THEN "none" ELSE "link" ]_vars

\* C22 witness: a real run has replaced a file by a link, and the backup
\* holds a copy under the file's path relative to the root.
C22_Witness ==
    /\ ~cmd.dry_run /\ pc \in {"execute", "exited"}
    /\ \E s \in Slots :
          /\ fs[s].kind = "link"
          /\ \E b \in backup : snap.rootdir.comps \o b.rel = s


\* The next action of a real run fails.
HeadFails ==
    /\ Performing
    /\ Action_execute(fs, backup, cwd, Head(todo), TRUE, snap.rootdir).status # "ok"

\* C23: execute performs the pending actions in list order; when one fails
\* the run ends at once with that error, the actions after it are never
\* performed, and what the earlier actions did to the files and the backup
\* stays as it is.
C23_AbortWithoutRollback ==
    [][ /\ (pc = "execute" /\ todo # <<>>) =>
            \/ pc' = "execute" /\ todo' = Tail(todo) /\ ~HeadFails
            \/ /\ HeadFails
               /\ pc' = "exited" /\ outcome' = "Io" /\ exit' = 1
               /\ todo' = todo
               /\ backup \subseteq backup'
               /\ \A s \in Slots : s # TargetSlot => fs'[s] = fs[s]
        /\ pc = "exited" => (fs' = fs /\ backup' = backup /\ todo' = todo) ]_vars

\* C23 witness: a real run ended on a failing action after an earlier
\* action had moved a file to the backup; the failing action is still listed.
C23_Witness ==
    /\ pc = "exited" /\ outcome = "Io" /\ ~cmd.dry_run
    /\ todo # <<>>
    /\ backup # {}
    /\ \E b \in backup : fs[snap.rootdir.comps \o b.rel].kind # "file"


\* Entry i is a 'delete' entry whose path is a link that resolves to nothing.
DeleteOfDangling(i) ==
    /\ Entries[i].op = "delete"
    /\ is_symlink(fs, cwd, Entries[i].path)
    /\ ~canonicalize(fs, cwd, Entries[i].path).ok

\* C24 (as claimed): a group of current 'keep' entries and 'delete' entries
\* of which one names a link whose source is missing makes validate fail
\* with OpNotAllowed, so that no Delete action is emitted for it.
C24_DeleteOfUnresolvablePath ==
    ( /\ ValidatedAtStart
      /\ validation_find_keeper(Entries).some
      /\ \A i \in 1..Len(Entries) : DeleteOfDangling(i) \/ KeepOfCurrent(i)
      /\ \E i \in 1..Len(Entries) : DeleteOfDangling(i) )
        => (~result.ok /\ result.err.kind = "OpNotAllowed")

\* What validate returns in that case: success, with a Delete action marked
\* no-op for the dangling link.
DanglingDeleteIsNoOp ==
    /\ ValidatedAtStart /\ result.ok
    /\ \E i \in 1..Len(Entries) :
          DeleteOfDangling(i) /\ result.val[i] = ActDelete(Entries[i].path, TRUE)


\* The places of the `Root Directory` lines of the file read, and the
\* directory the first of them names.
RootLines ==
    {i \in 1..Len(lines) :
        /\ Line_decode(lines[i]).ok
        /\ Line_decode(lines[i]).val.kind = "MetaData"
        /\ Line_decode(lines[i]).val.key = <<"Root Directory">>}
FirstRoot ==
    PathBuf_from(Line_decode(lines[CHOOSE i \in RootLines : \A j \in RootLines : i <= j]).val.val)

\* The file was read, to a snapshot.
ParsedOk == pc = "parsed" /\ parsed.some /\ parsed.val.status = "ok"

\* C25 (as claimed): the snapshot read from a file with several `Root
\* Directory` lines has the root of the first of them, and the path of every
\* entry is under that root.
C25_FirstMetadataWins ==
    (dom = "metadata" /\ ParsedOk /\ RootLines # {}) =>
        /\ parsed.val.snap.rootdir = FirstRoot
        /\ \A g \in 1..Len(parsed.val.snap.duplicates) :
              \A e \in 1..Len(parsed.val.snap.duplicates[g].filepaths) :
                  strip_prefix(parsed.val.snap.duplicates[g].filepaths[e].path, FirstRoot).ok

\* What parse returns for two different roots: the root of the last line.
LastRootRead ==
    /\ dom = "metadata" /\ ParsedOk
    /\ Cardinality(RootLines) = 2
    /\ parsed.val.snap.rootdir # FirstRoot


\* The entry rendered by the call, the text of its path relative to the root,
\* and the line that was written for it.
RenderedEntry == args.val.filepath
RelText ==
    display(RelPath(SubSeq(RenderedEntry.path.comps, Len(args.val.rootdir.comps) + 1,
                           Len(RenderedEntry.path.comps))))
RenderReturned == dom = "render" /\ pc = "returned" /\ ret.val.status = "ok"

\* C26 (as amended): a 'symlink' entry with a source is written as `symlink
\* <relpath> -> <source>` with the text of the source as stored, and every
\* other entry, a 'symlink' entry without a source included, as `<op>
\* <relpath>` with no arrow.
C26_RenderedEntries ==
    RenderReturned =>
        ret.val.lines =
            << IF RenderedEntry.op = "symlink" /\ RenderedEntry.source.some
               THEN <<"symlink", " ">> \o RelText \o <<" ", "->", " ">>
                        \o display(RenderedEntry.source.val)
               ELSE <<RenderedEntry.op, " ">> \o RelText >>

\* C26 witness: a 'symlink' entry without a source was written, and its line
\* has no arrow.
C26_Witness ==
    /\ RenderReturned
    /\ RenderedEntry.op = "symlink" /\ ~RenderedEntry.source.some
    /\ \A i \in 1..Len(ret.val.lines[1]) : ret.val.lines[1][i] # "->"

\* C26 (as claimed): the line of a 'symlink' entry without a source is
\* `symlink <relpath>` followed by the arrow.
C26_AsClaimed ==
    (RenderReturned /\ RenderedEntry.op = "symlink" /\ ~RenderedEntry.source.some) =>
        ret.val.lines[1] \in {<<"symlink", " ">> \o RelText \o <<" ", "->">>,
                              <<"symlink", " ">> \o RelText \o <<" ", "->", " ">>}


\* A real apply without allow_full_deletion has gone through.
Applied ==
    /\ pc = "exited" /\ outcome = "Ok"
    /\ cmd.name = "apply" /\ ~cmd.dry_run
    /\ result.ok

\* Path p is a regular file, not a link, with the group's content.
RegularCopy(p) == Stat(fs, cwd, p, FALSE).kind = "file" /\ MatchesHash(p)

\* C27 (as claimed): after an apply without allow_full_deletion that went
\* through, one path of the group is still a regular file with the
\* group's content.
C27_ContentSurvivesApply ==
    (Applied /\ ~cmd.allow_full_deletion) =>
        \E i \in 1..Len(Entries) : RegularCopy(Entries[i].path)

\* What apply leaves of a group that lists its keeper a second time as
\* 'delete': no path of the group exists.
AllListedGone ==
    /\ Applied /\ ~cmd.allow_full_deletion
    /\ \A i \in 1..Len(Entries) : Stat(fs, cwd, Entries[i].path, FALSE).kind = "none"


\* The slots apply has put a link in: links whose former content is in the
\* backup.
CreatedLinks ==
    {s \in Slots : fs[s].kind = "link"
                     /\ \E b \in backup : snap.rootdir.comps \o b.rel = s}

\* C28 (as claimed): after an apply that went through, every link it
\* created resolves to a regular file with the group's content.
C28_NoDanglingLinks ==
    Applied =>
        \A s \in CreatedLinks :
            is_file(fs, cwd, AbsPath(s)) /\ MatchesHash(AbsPath(s))

\* What apply leaves of `symlink a/1`, `keep a/1`: a link to itself.
SelfLinkCreated ==
    /\ Applied
    /\ \E s \in CreatedLinks :
          fs[s].target = RelPath(<<s[Len(s)]>>)


\* find_keeper has returned.
KeeperReturned == dom = "keeper" /\ pc = "returned"

\* C29 (as claimed): find_keeper returns None exactly when no entry of the
\* list is marked 'keep', and otherwise an entry of the list that is marked
\* 'keep'.
C29_KeeperIsKeepEntry ==
    KeeperReturned =>
        /\ ~ret.val.some <=> (\A i \in 1..Len(args.val) : args.val[i].op # "keep")
        /\ ret.val.some =>
              /\ \E i \in 1..Len(args.val) : args.val[i] = ret.val.val
              /\ ret.val.val.op = "keep"

\* What find_keeper returns for a path listed as 'delete' before it is
\* listed as 'keep': the 'delete' entry.
KeeperNotKept ==
    /\ KeeperReturned
    /\ ret.val.some /\ ret.val.val.op # "keep"


\* traverse_bfs has returned a list.
Traversed == dom = "traverse" /\ pc = "traversed" /\ ret.val.ok

\* The directory a path that was read leads to, and the entry of its
\* directory a path that was emitted names.
DirRead(i) == Stat(fs, cwd, reads[i], TRUE).at
EntryEmitted(i) == Stat(fs, cwd, ret.val.val[i], FALSE).at

\* A path is an excluded path or below one.
AtOrBelowExcluded(p) ==
    excludes.some /\ \E x \in excludes.val : strip_prefix(p, x).ok

\* The entries of the tree under the root that are no directories and no
\* links to directories, and are not at or below an excluded path.
FilesToEmit ==
    {s \in Slots : /\ IsPrefix(RootDir.comps, s)
                   /\ fs[s].kind # "none"
                   /\ ~is_dir(fs, cwd, AbsPath(s))
                   /\ ~AtOrBelowExcluded(AbsPath(s))}

\* C30 (as claimed): when traverse_bfs has returned, it has read no
\* directory twice, it has emitted every entry that is not a directory once
\* and none twice, and it has emitted no path at or below an excluded path.
C30_TraversalTerminates ==
    Traversed =>
        /\ \A i, j \in 1..Len(reads) : i # j => DirRead(i) # DirRead(j)
        /\ \A i, j \in 1..Len(ret.val.val) : i # j => EntryEmitted(i) # EntryEmitted(j)
        /\ \A s \in FilesToEmit : \E i \in 1..Len(ret.val.val) : EntryEmitted(i) = s
        /\ \A i \in 1..Len(ret.val.val) : ~AtOrBelowExcluded(ret.val.val[i])

\* What traverse_bfs does with a link to a directory: it reads the directory
\* again through the link and emits its files a second time.
ReadTwice ==
    /\ Traversed
    /\ \E i, j \in 1..Len(reads) : i # j /\ DirRead(i) = DirRead(j)
    /\ \E i, j \in 1..Len(ret.val.val) : i # j /\ EntryEmitted(i) = EntryEmitted(j)

=============================================================================
